---- MODULE Spec2Model ----
(***************************************************************************)
(* Quest lifecycle, application review and party formation of the          *)
(* look-for-party backend (backend/app/api/routes, backend/app/crud).      *)
(*                                                                         *)
(* The quest, application, party and party member tables are sequences of  *)
(* rows whose index is the row's primary key; the ratings are a set of     *)
(* rows, each identified by its unique (party, rater, rated user) triple;  *)
(* reputation is the reputation_score column of the users.  Every request  *)
(* handler is one action: it reads the tables, answers with an HTTP status *)
(* code (variable last) and, when it answers 200, commits its writes.  A   *)
(* handler that raises leaves the tables as they were (the session is      *)
(* discarded without a commit).                                            *)
(*                                                                         *)
(* Requests served at the same time are handlers cut at their database     *)
(* round trips: inflight holds, per worker, the handler's position and the *)
(* values it has read so far.  The database gives READ COMMITTED: a query  *)
(* sees what is committed when it runs, and a commit writes all the rows   *)
(* of its transaction at once.                                             *)
(***************************************************************************)
EXTENDS Integers, Sequences, FiniteSets

VARIABLES quests, applications, parties, members, ratings, reputation, last,
          inflight

vars == <<quests, applications, parties, members, ratings, reputation, last,
          inflight>>
tables == <<quests, applications, parties, members, ratings, reputation>>

(***************************************************************************)
(* Bounds of the model.                                                    *)
(***************************************************************************)
NumUsers == 3
MaxQuests == 1           \* quests made by POST /quests
MaxPartyQuests == 1      \* quests made by POST /parties/{party_id}/quests
MaxApplications == 2
MaxMembers == 3
MaxRatings == 2
MaxInflight == 2         \* requests served at the same time

Users == 1..NumUsers
\* The user with the highest id carries is_superuser; the others do not.
is_superuser(u) == u = NumUsers

\* party_size_min / party_size_max values sent by clients (0: field not sent).
Sizes == 1..2

Unset == "Unset"      \* a field the request body does not carry
None == "None"        \* a field carried as JSON null, or a NULL column
NoParty == 0          \* parent_party_id IS NULL
Gone == 0             \* a column of a row that was deleted

(***************************************************************************)
(* models/quest.py, models/application.py, models/party.py: the enums.     *)
(***************************************************************************)
QuestStatus == {"RECRUITING", "IN_PROGRESS", "COMPLETED", "CANCELLED", "EXPIRED"}
QuestType == {"INDIVIDUAL", "PARTY_INTERNAL", "PARTY_EXPANSION", "PARTY_HYBRID"}
QuestVisibility == {"PUBLIC", "PRIVATE"}
ApplicationStatus == {"PENDING", "APPROVED", "REJECTED", "WITHDRAWN", "EXPIRED"}
PartyMemberRole == {"OWNER", "MODERATOR", "MEMBER"}

\* Primary keys are never reused: a deleted row keeps its index and has
\* Gone in its columns, so that no query finds it.
QuestIds == {q \in DOMAIN quests : quests[q].creator_id # Gone}
ApplicationIds == {a \in DOMAIN applications : applications[a].quest_id # Gone}
PartyIds == {p \in DOMAIN parties : parties[p].quest_id # Gone}
MemberIds == {m \in DOMAIN members : members[m].party_id # Gone}

\* Ids a request may name: every stored row and one id that is not stored.
AnyQuestId == 1..(Len(quests) + 1)
AnyApplicationId == 1..(Len(applications) + 1)
AnyPartyId == 1..(Len(parties) + 1)
AnyMemberId == 1..(Len(members) + 1)

\* The workers, and a worker that serves no request.
Slots == 1..MaxInflight
Idle == [pc |-> "idle", user |-> 0, quest |-> 0, rows |-> <<>>, score |-> 0]

Respond(op, code) == last' = [op |-> op, code |-> code] /\ UNCHANGED inflight
Reject(op, code) == Respond(op, code) /\ UNCHANGED tables

Init ==
    /\ quests = <<>>
    /\ applications = <<>>
    /\ parties = <<>>
    /\ members = <<>>
    /\ ratings = {}
    /\ reputation = [u \in Users |-> 0]
    /\ last = [op |-> "init", code |-> 200]
    /\ inflight = [s \in Slots |-> Idle]

(***************************************************************************)
(* Queries shared by the handlers.                                         *)
(***************************************************************************)
\* Rows come back in primary-key order (the queries state no ORDER BY).
first_of(rows) == CHOOSE a \in rows : \A b \in rows : a <= b

\* select(PartyMember).where(party_id == p, user_id == u, status == "active")
active_rows_of(u, p) ==
    {m \in MemberIds :
        /\ members[m].party_id = p
        /\ members[m].user_id = u
        /\ members[m].status = "active"}

\* .first() of that query, followed by the role test of the quest routes.
\* The query has no ORDER BY: with several active rows of the user any of
\* them may be the one read, so the test has a set of possible outcomes.
is_active_leader(u, p) ==
    IF active_rows_of(u, p) = {} THEN {FALSE}
    ELSE {(members[m].role \in {"OWNER", "MODERATOR"}) : m \in active_rows_of(u, p)}

\* Mutant: a removed leader keeps the right to manage the party's quests.
can_manage_former_leader(u, q) ==
    IF quests[q].creator_id = u \/ is_superuser(u) THEN {TRUE}
    ELSE IF quests[q].parent_party_id # NoParty
    THEN {\E m \in MemberIds :
             /\ members[m].party_id = quests[q].parent_party_id
             /\ members[m].user_id = u
             /\ members[m].role \in {"OWNER", "MODERATOR"}}
    ELSE {FALSE}

\* The permission block shared by close, complete and cancel: the outcomes
\* can_close / can_complete / can_cancel may take.
can_manage(u, q) ==
    IF quests[q].creator_id = u \/ is_superuser(u) THEN {TRUE}
    ELSE IF quests[q].parent_party_id # NoParty
    THEN is_active_leader(u, quests[q].parent_party_id)
    ELSE {FALSE}

\* select(QuestApplication).where(quest_id == q, status == APPROVED)
approved_applications(q) ==
    {a \in ApplicationIds :
        applications[a].quest_id = q /\ applications[a].status = "APPROVED"}

\* Mutant: the count forgets the status filter.
application_count(q) ==
    Cardinality({a \in ApplicationIds : applications[a].quest_id = q})

\* select(func.count()) over the same filter.
approved_count(q) == Cardinality(approved_applications(q))

party_size_unmet(q) == approved_count(q) + 1 < quests[q].party_size_min

\* crud.get_party_by_quest
party_by_quest(q) == {p \in PartyIds : parties[p].quest_id = q}

(***************************************************************************)
(* POST /quests                                                            *)
(***************************************************************************)
\* Quests made from a party context carry the party as parent_party_id.
party_quests == {q \in QuestIds : quests[q].parent_party_id # NoParty}

create_quest(u, req) ==
    /\ Cardinality(QuestIds \ party_quests) < MaxQuests
    /\ Len(quests) < MaxQuests + MaxPartyQuests
    /\ IF req.party_size_min > req.party_size_max
       THEN Reject("create_quest", 400)
       ELSE /\ quests' = Append(quests,
                    [creator_id |-> u,
                     status |-> "RECRUITING",
                     quest_type |-> req.quest_type,
                     party_size_min |-> req.party_size_min,
                     party_size_max |-> req.party_size_max,
                     visibility |-> req.visibility,
                     parent_party_id |-> NoParty,
                     assigned_member_ids |-> <<>>,
                     is_publicized |-> FALSE,
                     updated_at |-> "create_quest",
                     completed_at |-> None])
            /\ Respond("create_quest", 200)
            /\ UNCHANGED <<applications, parties, members, ratings, reputation>>

(***************************************************************************)
(* PUT /quests/{quest_id}                                                  *)
(***************************************************************************)
\* sqlmodel_update with model_dump(exclude_unset=True): a field the request
\* carries overwrites the column, any other column keeps its value.
merged(old, new) == IF new = Unset THEN old ELSE new
merged_size(old, new) == IF new = 0 THEN old ELSE new
merged_flag(old, new) == IF new = Unset THEN old ELSE new = "true"

\* The validation block of the route: only a pair sent together is compared.
update_sizes_invalid(q, req) ==
    /\ req.party_size_min # 0
    /\ req.party_size_max # 0
    /\ req.party_size_min > req.party_size_max

update_quest(u, q, req) ==
    IF q \notin QuestIds THEN Reject("update_quest", 404)
    ELSE IF quests[q].creator_id # u /\ ~is_superuser(u)
    THEN Reject("update_quest", 403)
    ELSE IF update_sizes_invalid(q, req) THEN Reject("update_quest", 400)
    \* status is a NOT NULL column: writing null fails at commit.
    ELSE IF req.status = None THEN Reject("update_quest", 500)
    ELSE /\ quests' = [quests EXCEPT ![q] =
                [@ EXCEPT
                    !.status = merged(@, req.status),
                    !.party_size_min = merged_size(@, req.party_size_min),
                    !.party_size_max = merged_size(@, req.party_size_max),
                    !.quest_type = merged(@, req.quest_type),
                    !.visibility = merged(@, req.visibility),
                    !.is_publicized = merged_flag(@, req.is_publicized)]]
         /\ Respond("update_quest", 200)
         /\ UNCHANGED <<applications, parties, members, ratings, reputation>>

(***************************************************************************)
(* POST /quests/{quest_id}/publicize                                       *)
(***************************************************************************)
publicize_quest(u, q, req) ==
    IF q \notin QuestIds THEN Reject("publicize_quest", 404)
    ELSE IF quests[q].quest_type \notin {"PARTY_INTERNAL", "PARTY_HYBRID"}
    THEN Reject("publicize_quest", 400)
    ELSE IF quests[q].is_publicized THEN Reject("publicize_quest", 400)
    ELSE \E may \in (IF quests[q].parent_party_id = NoParty THEN {TRUE}
                      ELSE IF quests[q].creator_id = u \/ is_superuser(u) THEN {TRUE}
                      ELSE is_active_leader(u, quests[q].parent_party_id)) :
         IF ~may THEN Reject("publicize_quest", 403)
         ELSE /\ quests' = [quests EXCEPT ![q] =
                     [@ EXCEPT !.visibility = req.visibility,
                               !.is_publicized = TRUE,
                               !.updated_at = "publicize_quest"]]
              /\ Respond("publicize_quest", 200)
              /\ UNCHANGED <<applications, parties, members, ratings, reputation>>

(***************************************************************************)
(* POST /quests/{quest_id}/close                                           *)
(***************************************************************************)
new_member(p, u, role) ==
    [party_id |-> p, user_id |-> u, role |-> role, status |-> "active",
     left_at |-> None]

\* INDIVIDUAL: one MEMBER row per approved application, unconditionally.
RECURSIVE individual_rows(_, _, _)
individual_rows(rows, todo, p) ==
    IF todo = {} THEN rows
    ELSE LET a == first_of(todo)
         IN  individual_rows(
                 Append(rows, new_member(p, applications[a].applicant_id, "MEMBER")),
                 todo \ {a}, p)

\* Mutant: only an active row counts as an existing membership.
existing_active_member(rows, p, u) ==
    \E m \in DOMAIN rows :
        rows[m].party_id = p /\ rows[m].user_id = u /\ rows[m].status = "active"

\* select(PartyMember).where(party_id == p, user_id == u).first(): a row of
\* any status.  The query autoflushes, so rows added earlier in the same
\* loop are seen.
existing_member(rows, p, u) ==
    \E m \in DOMAIN rows : rows[m].party_id = p /\ rows[m].user_id = u

\* PARTY_EXPANSION: a MEMBER row per approved applicant without a row.
RECURSIVE expansion_rows(_, _, _)
expansion_rows(rows, todo, p) ==
    IF todo = {} THEN rows
    ELSE LET a == first_of(todo)
             u == applications[a].applicant_id
         IN  expansion_rows(
                 IF existing_member(rows, p, u) THEN rows
                 ELSE Append(rows, new_member(p, u, "MEMBER")),
                 todo \ {a}, p)

\* The party and membership rows a close of q writes, by quest type.
close_parties(q) ==
    IF quests[q].quest_type = "INDIVIDUAL"
    THEN Append(parties, [quest_id |-> q, status |-> "ACTIVE"])
    ELSE parties

\* Mutant: every applicant of an INDIVIDUAL quest joins, approved or not.
close_members_every_applicant(q) ==
    IF quests[q].quest_type = "INDIVIDUAL"
    THEN individual_rows(
             Append(members, new_member(Len(parties) + 1, quests[q].creator_id, "OWNER")),
             {a \in ApplicationIds : applications[a].quest_id = q}, Len(parties) + 1)
    ELSE IF /\ quests[q].quest_type = "PARTY_EXPANSION"
            /\ quests[q].parent_party_id # NoParty
    THEN expansion_rows(members, approved_applications(q), quests[q].parent_party_id)
    ELSE members

\* Mutant: an internal quest merges its applicants like an expansion quest.
close_members_internal_expands(q) ==
    IF quests[q].quest_type = "INDIVIDUAL"
    THEN individual_rows(
             Append(members, new_member(Len(parties) + 1, quests[q].creator_id, "OWNER")),
             approved_applications(q), Len(parties) + 1)
    ELSE IF /\ quests[q].quest_type \in {"PARTY_EXPANSION", "PARTY_INTERNAL"}
            /\ quests[q].parent_party_id # NoParty
    THEN expansion_rows(members, approved_applications(q), quests[q].parent_party_id)
    ELSE members

close_members(q) ==
    IF quests[q].quest_type = "INDIVIDUAL"
    THEN individual_rows(
             Append(members, new_member(Len(parties) + 1, quests[q].creator_id, "OWNER")),
             approved_applications(q), Len(parties) + 1)
    ELSE IF /\ quests[q].quest_type = "PARTY_EXPANSION"
            /\ quests[q].parent_party_id # NoParty
    THEN expansion_rows(members, approved_applications(q), quests[q].parent_party_id)
    ELSE members

close_quest(u, q) ==
    IF q \notin QuestIds THEN Reject("close_quest", 404)
    ELSE IF quests[q].status # "RECRUITING" THEN Reject("close_quest", 400)
    ELSE \E can_close \in can_manage(u, q) :
         IF ~can_close THEN Reject("close_quest", 403)
         ELSE IF party_size_unmet(q) THEN Reject("close_quest", 400)
         \* Party.quest_id is UNIQUE: the flush of a second party for q raises.
         ELSE IF quests[q].quest_type = "INDIVIDUAL" /\ party_by_quest(q) # {}
         THEN Reject("close_quest", 500)
         ELSE /\ Len(close_members(q)) <= MaxMembers
              /\ parties' = close_parties(q)
              /\ members' = close_members(q)
              /\ quests' = [quests EXCEPT ![q] =
                     [@ EXCEPT !.status = "IN_PROGRESS", !.updated_at = "close_quest"]]
              /\ Respond("close_quest", 200)
              /\ UNCHANGED <<applications, ratings, reputation>>

(***************************************************************************)
(* POST /quests/{quest_id}/complete, POST /quests/{quest_id}/cancel        *)
(***************************************************************************)
complete_quest(u, q) ==
    IF q \notin QuestIds THEN Reject("complete_quest", 404)
    ELSE IF quests[q].status # "IN_PROGRESS" THEN Reject("complete_quest", 400)
    ELSE \E can_complete \in can_manage(u, q) :
         IF ~can_complete THEN Reject("complete_quest", 403)
         ELSE /\ quests' = [quests EXCEPT ![q] =
                     [@ EXCEPT !.status = "COMPLETED",
                               !.completed_at = "complete_quest",
                               !.updated_at = "complete_quest"]]
              /\ Respond("complete_quest", 200)
              /\ UNCHANGED <<applications, parties, members, ratings, reputation>>

\* Mutant: cancel forgets to test the quest's status.
cancel_quest_any_status(u, q) ==
    IF q \notin QuestIds THEN Reject("cancel_quest", 404)
    ELSE \E can_cancel \in can_manage(u, q) :
         IF ~can_cancel THEN Reject("cancel_quest", 403)
         ELSE /\ quests' = [quests EXCEPT ![q] =
                     [@ EXCEPT !.status = "CANCELLED", !.updated_at = "cancel_quest"]]
              /\ Respond("cancel_quest", 200)
              /\ UNCHANGED <<applications, parties, members, ratings, reputation>>

cancel_quest(u, q) ==
    IF q \notin QuestIds THEN Reject("cancel_quest", 404)
    ELSE IF quests[q].status \notin {"RECRUITING", "IN_PROGRESS"}
    THEN Reject("cancel_quest", 400)
    ELSE \E can_cancel \in can_manage(u, q) :
         IF ~can_cancel THEN Reject("cancel_quest", 403)
         ELSE /\ quests' = [quests EXCEPT ![q] =
                     [@ EXCEPT !.status = "CANCELLED", !.updated_at = "cancel_quest"]]
              /\ Respond("cancel_quest", 200)
              /\ UNCHANGED <<applications, parties, members, ratings, reputation>>

(***************************************************************************)
(* POST /quest-applications/quests/{quest_id}/apply                        *)
(***************************************************************************)
\* Mutant: only a PENDING application counts as a duplicate.
already_pending(u, q) ==
    \E a \in ApplicationIds :
        /\ applications[a].applicant_id = u
        /\ applications[a].quest_id = q
        /\ applications[a].status = "PENDING"

\* crud.get_user_applications filtered by the loop of the route: u already
\* holds a PENDING or APPROVED application for q.
already_applied(u, q) ==
    \E a \in ApplicationIds :
        /\ applications[a].applicant_id = u
        /\ applications[a].quest_id = q
        /\ applications[a].status \in {"PENDING", "APPROVED"}

apply_to_quest(u, q, req) ==
    /\ Len(applications) < MaxApplications
    /\ IF q \notin QuestIds THEN Reject("apply_to_quest", 404)
       ELSE IF quests[q].status # "RECRUITING" THEN Reject("apply_to_quest", 400)
       ELSE IF quests[q].creator_id = u THEN Reject("apply_to_quest", 400)
       ELSE IF already_applied(u, q) THEN Reject("apply_to_quest", 400)
       ELSE /\ applications' = Append(applications,
                    [quest_id |-> q,
                     applicant_id |-> u,
                     status |-> "PENDING",
                     message |-> req.message,
                     proposed_role |-> req.proposed_role,
                     relevant_skills |-> req.relevant_skills,
                     reviewer_feedback |-> None,
                     reviewed_at |-> None,
                     updated_at |-> "apply_to_quest"])
            /\ Respond("apply_to_quest", 200)
            /\ UNCHANGED <<quests, parties, members, ratings, reputation>>

(***************************************************************************)
(* crud.update_quest_application                                           *)
(***************************************************************************)
update_quest_application(a, req, op) ==
    [applications EXCEPT ![a] =
        [@ EXCEPT
            !.status = merged(@, req.status),
            !.message = merged(@, req.message),
            !.proposed_role = merged(@, req.proposed_role),
            !.relevant_skills = merged(@, req.relevant_skills),
            !.reviewer_feedback = merged(@, req.reviewer_feedback),
            !.reviewed_at = IF req.status \in {"APPROVED", "REJECTED"} THEN op ELSE @,
            !.updated_at = op]]

(***************************************************************************)
(* PUT /quest-applications/{application_id}                                *)
(***************************************************************************)
\* `application_in.status is not None`: the field is sent and is not null.
carries(v) == v # Unset /\ v # None

\* Mutant: a rejected application may be reviewed again.
not_pending_or_rejected(app) == app.status \notin {"PENDING", "REJECTED"}

\* `application.status != ApplicationStatus.PENDING` of the status branch.
not_pending(app) == app.status # "PENDING"

update_application(u, a, req) ==
    IF a \notin ApplicationIds THEN Reject("update_application", 404)
    ELSE IF applications[a].quest_id \notin QuestIds
    THEN Reject("update_application", 404)
    ELSE LET app == applications[a]
             is_creator == quests[app.quest_id].creator_id = u
             is_applicant == app.applicant_id = u
         IN  IF carries(req.status) /\ ~is_creator /\ ~is_superuser(u)
             THEN Reject("update_application", 403)
             ELSE IF carries(req.status) /\ not_pending(app)
             THEN Reject("update_application", 400)
             ELSE IF /\ carries(req.message) \/ carries(req.proposed_role)
                     /\ ~is_applicant
                     /\ ~is_superuser(u)
             THEN Reject("update_application", 403)
             ELSE IF /\ carries(req.message) \/ carries(req.proposed_role)
                     /\ app.status # "PENDING"
             THEN Reject("update_application", 400)
             \* status and message are NOT NULL columns.
             ELSE IF req.status = None \/ req.message = None
             THEN Reject("update_application", 500)
             ELSE /\ applications' =
                        update_quest_application(a, req, "update_application")
                  /\ Respond("update_application", 200)
                  /\ UNCHANGED <<quests, parties, members, ratings, reputation>>

(***************************************************************************)
(* DELETE /quest-applications/{application_id}                             *)
(***************************************************************************)
withdrawn_update ==
    [status |-> "WITHDRAWN", message |-> Unset, proposed_role |-> Unset,
     relevant_skills |-> Unset, reviewer_feedback |-> Unset]

withdraw_application(u, a) ==
    IF a \notin ApplicationIds THEN Reject("withdraw_application", 404)
    ELSE IF applications[a].applicant_id # u /\ ~is_superuser(u)
    THEN Reject("withdraw_application", 403)
    ELSE IF applications[a].status # "PENDING"
    THEN Reject("withdraw_application", 400)
    ELSE /\ applications' =
               update_quest_application(a, withdrawn_update, "withdraw_application")
         /\ Respond("withdraw_application", 200)
         /\ UNCHANGED <<quests, parties, members, ratings, reputation>>

(***************************************************************************)
(* POST /parties                                                           *)
(***************************************************************************)
create_party(u, q) ==
    IF q \notin QuestIds THEN Reject("create_party", 404)
    ELSE IF quests[q].creator_id # u /\ ~is_superuser(u)
    THEN Reject("create_party", 403)
    ELSE IF party_by_quest(q) # {} THEN Reject("create_party", 400)
    ELSE /\ Len(members) < MaxMembers
         /\ parties' = Append(parties, [quest_id |-> q, status |-> "ACTIVE"])
         /\ members' = Append(members, new_member(Len(parties) + 1, u, "OWNER"))
         /\ Respond("create_party", 200)
         /\ UNCHANGED <<quests, applications, ratings, reputation>>

(***************************************************************************)
(* POST /parties/{party_id}/members                                        *)
(***************************************************************************)
\* Mutant: the listing keeps the rows of removed members.
party_rows(p) == {m \in MemberIds : members[m].party_id = p}

\* crud.get_party_members(active_only=True)
active_members(p) ==
    {m \in MemberIds : members[m].party_id = p /\ members[m].status = "active"}

\* is_leader of the parties routes: an active row with a leadership role.
is_leader(u, p) ==
    \E m \in active_members(p) :
        members[m].user_id = u /\ members[m].role \in {"OWNER", "MODERATOR"}

\* is_creator of the parties routes: the party's quest exists and u made it.
is_party_quest_creator(u, p) ==
    /\ parties[p].quest_id \in QuestIds
    /\ quests[parties[p].quest_id].creator_id = u

add_party_member(u, p, req) ==
    IF p \notin PartyIds THEN Reject("add_party_member", 404)
    ELSE IF ~is_party_quest_creator(u, p) /\ ~is_leader(u, p) /\ ~is_superuser(u)
    THEN Reject("add_party_member", 403)
    ELSE IF \E m \in active_members(p) : members[m].user_id = req.user_id
    THEN Reject("add_party_member", 400)
    ELSE IF /\ parties[p].quest_id \in QuestIds
            /\ Cardinality(active_members(p)) >= quests[parties[p].quest_id].party_size_max
    THEN Reject("add_party_member", 400)
    ELSE /\ Len(members) < MaxMembers
         /\ members' = Append(members,
                [party_id |-> p, user_id |-> req.user_id, role |-> req.role,
                 status |-> req.status, left_at |-> None])
         /\ Respond("add_party_member", 200)
         /\ UNCHANGED <<quests, applications, parties, ratings, reputation>>

(***************************************************************************)
(* PUT /parties/{party_id}/members/{member_id}                             *)
(***************************************************************************)
update_party_member(u, p, m, req) ==
    IF p \notin PartyIds THEN Reject("update_party_member", 404)
    ELSE IF m \notin MemberIds \/ members[m].party_id # p
    THEN Reject("update_party_member", 404)
    ELSE LET is_self == members[m].user_id = u
             may_lead == is_party_quest_creator(u, p) \/ is_leader(u, p)
                            \/ is_superuser(u)
         IN  IF req.role \in {"OWNER", "MODERATOR"} /\ ~may_lead
             THEN Reject("update_party_member", 403)
             ELSE IF carries(req.role) /\ ~may_lead /\ ~is_self
             THEN Reject("update_party_member", 403)
             \* role and status are NOT NULL columns.
             ELSE IF req.role = None \/ req.status = None
             THEN Reject("update_party_member", 500)
             ELSE /\ members' = [members EXCEPT ![m] =
                        [@ EXCEPT !.role = merged(@, req.role),
                                  !.status = merged(@, req.status)]]
                  /\ Respond("update_party_member", 200)
                  /\ UNCHANGED <<quests, applications, parties, ratings, reputation>>

(***************************************************************************)
(* DELETE /parties/{party_id}/members/{member_id}                          *)
(***************************************************************************)
remove_party_member(u, p, m) ==
    IF p \notin PartyIds THEN Reject("remove_party_member", 404)
    ELSE IF m \notin MemberIds \/ members[m].party_id # p
    THEN Reject("remove_party_member", 404)
    ELSE IF /\ ~is_party_quest_creator(u, p)
            /\ ~is_leader(u, p)
            /\ members[m].user_id # u
            /\ ~is_superuser(u)
    THEN Reject("remove_party_member", 403)
    ELSE IF /\ parties[p].quest_id \in QuestIds
            /\ members[m].user_id = quests[parties[p].quest_id].creator_id
    THEN Reject("remove_party_member", 400)
    ELSE /\ members' = [members EXCEPT ![m] =
                [@ EXCEPT !.status = "inactive", !.left_at = "remove_party_member"]]
         /\ Respond("remove_party_member", 200)
         /\ UNCHANGED <<quests, applications, parties, ratings, reputation>>

(***************************************************************************)
(* POST /quests/{quest_id}/assign-members                                  *)
(***************************************************************************)
\* assigned_member_ids is the list of user ids the JSON text holds, in the
\* order sent; <<>> is the NULL column (an empty list is never stored).
\* Mutant: a removed member still counts as a member of the party.
invalid_members_any_row(ids, p) ==
    {ids[i] : i \in DOMAIN ids}
        \ {members[m].user_id : m \in {k \in MemberIds : members[k].party_id = p}}

\* set(assigned_member_ids) - set(party_member_ids), the latter the users of
\* the party's active rows.
invalid_members(ids, p) ==
    {ids[i] : i \in DOMAIN ids} \ {members[m].user_id : m \in active_members(p)}

assign_quest_members(u, q, req) ==
    IF q \notin QuestIds THEN Reject("assign_quest_members", 404)
    ELSE IF quests[q].quest_type # "PARTY_INTERNAL"
    THEN Reject("assign_quest_members", 400)
    ELSE \E may \in (IF quests[q].parent_party_id = NoParty THEN {TRUE}
                      ELSE IF quests[q].creator_id = u \/ is_superuser(u) THEN {TRUE}
                      ELSE is_active_leader(u, quests[q].parent_party_id)) :
         IF ~may THEN Reject("assign_quest_members", 403)
         ELSE IF /\ quests[q].parent_party_id # NoParty
                 /\ invalid_members(req.assigned_member_ids,
                                    quests[q].parent_party_id) # {}
         THEN Reject("assign_quest_members", 400)
         ELSE /\ quests' = [quests EXCEPT ![q] =
                     [@ EXCEPT !.assigned_member_ids = req.assigned_member_ids,
                               !.updated_at = "assign_quest_members"]]
              /\ Respond("assign_quest_members", 200)
              /\ UNCHANGED <<applications, parties, members, ratings, reputation>>

(***************************************************************************)
(* POST /parties/{party_id}/quests                                         *)
(***************************************************************************)
\* `party_size_min or 1`: an omitted bound is stored as 1.
or_one(n) == IF n = 0 THEN 1 ELSE n

create_party_quest(u, p, req) ==
    /\ Cardinality(party_quests) < MaxPartyQuests
    /\ Len(quests) < MaxQuests + MaxPartyQuests
    /\ IF p \notin PartyIds THEN Reject("create_party_quest", 404)
       ELSE \E leads \in is_active_leader(u, p) :
            IF ~leads THEN Reject("create_party_quest", 403)
            ELSE IF /\ req.quest_type = "PARTY_INTERNAL"
                    /\ invalid_members(req.assigned_member_ids, p) # {}
            THEN Reject("create_party_quest", 400)
            ELSE IF /\ req.quest_type \in {"PARTY_EXPANSION", "PARTY_HYBRID"}
                    /\ req.party_size_min = 0 \/ req.party_size_max = 0
            THEN Reject("create_party_quest", 400)
            ELSE IF /\ req.quest_type \in {"PARTY_EXPANSION", "PARTY_HYBRID"}
                    /\ req.party_size_min > req.party_size_max
            THEN Reject("create_party_quest", 400)
            ELSE /\ quests' = Append(quests,
                         [creator_id |-> u,
                          status |-> "RECRUITING",
                          quest_type |-> req.quest_type,
                          party_size_min |-> or_one(req.party_size_min),
                          party_size_max |-> or_one(req.party_size_max),
                          visibility |-> req.visibility,
                          parent_party_id |-> p,
                          assigned_member_ids |-> req.assigned_member_ids,
                          is_publicized |-> FALSE,
                          updated_at |-> "create_party_quest",
                          completed_at |-> None])
                 /\ Respond("create_party_quest", 200)
                 /\ UNCHANGED <<applications, parties, members, ratings, reputation>>

(***************************************************************************)
(* PUT /parties/{party_id}                                                 *)
(***************************************************************************)
PartyStatus == {"ACTIVE", "COMPLETED", "ARCHIVED"}

update_party(u, p, req) ==
    IF p \notin PartyIds THEN Reject("update_party", 404)
    ELSE IF ~is_party_quest_creator(u, p) /\ ~is_leader(u, p) /\ ~is_superuser(u)
    THEN Reject("update_party", 403)
    \* status is a NOT NULL column.
    ELSE IF req.status = None THEN Reject("update_party", 500)
    ELSE /\ parties' = [parties EXCEPT ![p] =
                [@ EXCEPT !.status = merged(@, req.status)]]
         /\ Respond("update_party", 200)
         /\ UNCHANGED <<quests, applications, members, ratings, reputation>>

(***************************************************************************)
(* crud/rating.py: get_user_rating_summary and _update_user_reputation.    *)
(* Scores are kept in hundredths: 350 is the Decimal 3.50.                 *)
(***************************************************************************)
received(rows, u) == {r \in rows : r.rated_user_id = u}

RECURSIVE total_overall(_)
total_overall(rows) ==
    IF rows = {} THEN 0
    ELSE LET r == CHOOSE x \in rows : TRUE
         IN  r.overall_rating + total_overall(rows \ {r})

\* round(avg, 2): the quotient to two decimals, a tie going to the even digit.
round2(sum, n) ==
    LET q == (100 * sum) \div n
        rem == (100 * sum) % n
    IN  IF 2 * rem < n THEN q
        ELSE IF 2 * rem > n THEN q + 1
        ELSE IF q % 2 = 0 THEN q ELSE q + 1

\* Mutant: the average of all ratings, whoever received them.
average_of_all(rows, u) ==
    IF rows = {} THEN 0 ELSE round2(total_overall(rows), Cardinality(rows))

\* average_overall of the summary; 0.0 for a user without ratings.
average_overall(rows, u) ==
    IF received(rows, u) = {} THEN 0
    ELSE round2(total_overall(received(rows, u)), Cardinality(received(rows, u)))

\* The reputation column after _update_user_reputation(user_id = u) has read rows.
update_user_reputation(rows, u) ==
    [reputation EXCEPT ![u] = average_overall(rows, u)]

(***************************************************************************)
(* POST /ratings                                                           *)
(***************************************************************************)
\* Mutant: a removed member may still rate and be rated.
has_any_row(u, p) ==
    \E m \in MemberIds : members[m].party_id = p /\ members[m].user_id = u

\* select(PartyMember).where(party, user, status == "active").first() is a row
is_active_member(u, p) == active_rows_of(u, p) # {}

\* get_rating_between_users: the rows with this (party, rater, rated) triple.
rating_between(p, rater, rated) ==
    {r \in ratings :
        r.party_id = p /\ r.rater_id = rater /\ r.rated_user_id = rated}

create_rating(u, req) ==
    IF req.party_id \notin PartyIds THEN Reject("create_rating", 400)
    ELSE IF parties[req.party_id].status \notin {"COMPLETED", "ARCHIVED"}
    THEN Reject("create_rating", 400)
    ELSE IF ~is_active_member(u, req.party_id) THEN Reject("create_rating", 400)
    ELSE IF ~is_active_member(req.rated_user_id, req.party_id)
    THEN Reject("create_rating", 400)
    ELSE IF u = req.rated_user_id THEN Reject("create_rating", 400)
    ELSE IF rating_between(req.party_id, u, req.rated_user_id) # {}
    THEN Reject("create_rating", 400)
    ELSE /\ Cardinality(ratings) < MaxRatings
         /\ ratings' = ratings \cup
                {[party_id |-> req.party_id, rater_id |-> u,
                  rated_user_id |-> req.rated_user_id,
                  overall_rating |-> req.overall_rating]}
         /\ reputation' = update_user_reputation(ratings', req.rated_user_id)
         /\ Respond("create_rating", 200)
         /\ UNCHANGED <<quests, applications, parties, members>>

(***************************************************************************)
(* PUT /ratings/{rating_id}, DELETE /ratings/{rating_id}                   *)
(***************************************************************************)
update_rating(u, r, req) ==
    IF r \notin ratings THEN Reject("update_rating", 404)
    ELSE IF r.rater_id # u THEN Reject("update_rating", 403)
    ELSE /\ ratings' = (ratings \ {r}) \cup
                {[r EXCEPT !.overall_rating = merged_size(@, req.overall_rating)]}
         /\ reputation' = update_user_reputation(ratings', r.rated_user_id)
         /\ Respond("update_rating", 200)
         /\ UNCHANGED <<quests, applications, parties, members>>

delete_rating(u, r) ==
    IF r \notin ratings THEN Reject("delete_rating", 404)
    ELSE IF r.rater_id # u THEN Reject("delete_rating", 403)
    ELSE /\ ratings' = ratings \ {r}
         /\ reputation' = update_user_reputation(ratings', r.rated_user_id)
         /\ Respond("delete_rating", 200)
         /\ UNCHANGED <<quests, applications, parties, members>>

(***************************************************************************)
(* DELETE /quests/{quest_id}                                               *)
(***************************************************************************)
\* What is left at the index of a deleted row: Gone in every column.
deleted(row) == [column \in DOMAIN row |-> Gone]

\* Mutant: the delete stops at the party and leaves its ratings.
delete_quest_keeps_ratings(u, q) ==
    IF q \notin QuestIds THEN Reject("delete_quest", 404)
    ELSE IF quests[q].creator_id # u /\ ~is_superuser(u)
    THEN Reject("delete_quest", 403)
    ELSE /\ quests' = [k \in DOMAIN quests |->
                IF k = q THEN deleted(quests[k])
                ELSE IF quests[k].parent_party_id \in party_by_quest(q)
                THEN [quests[k] EXCEPT !.parent_party_id = NoParty]
                ELSE quests[k]]
         /\ applications' = [a \in DOMAIN applications |->
                IF applications[a].quest_id = q
                THEN deleted(applications[a])
                ELSE applications[a]]
         /\ parties' = [p \in DOMAIN parties |->
                IF parties[p].quest_id = q
                THEN deleted(parties[p])
                ELSE parties[p]]
         /\ members' = [m \in DOMAIN members |->
                IF members[m].party_id \in party_by_quest(q)
                THEN deleted(members[m])
                ELSE members[m]]
         /\ Respond("delete_quest", 200)
         /\ UNCHANGED <<ratings, reputation>>

\* session.delete(quest) follows the cascade_delete relationships: the
\* quest's applications and its party, and from the party its members and
\* its ratings.  The quests made from the party stay, with the foreign key
\* parent_party_id set to NULL.  No reputation_score is recomputed.
delete_quest(u, q) ==
    IF q \notin QuestIds THEN Reject("delete_quest", 404)
    ELSE IF quests[q].creator_id # u /\ ~is_superuser(u)
    THEN Reject("delete_quest", 403)
    ELSE /\ quests' = [k \in DOMAIN quests |->
                IF k = q THEN deleted(quests[k])
                ELSE IF quests[k].parent_party_id \in party_by_quest(q)
                THEN [quests[k] EXCEPT !.parent_party_id = NoParty]
                ELSE quests[k]]
         /\ applications' = [a \in DOMAIN applications |->
                IF applications[a].quest_id = q
                THEN deleted(applications[a])
                ELSE applications[a]]
         /\ parties' = [p \in DOMAIN parties |->
                IF parties[p].quest_id = q
                THEN deleted(parties[p])
                ELSE parties[p]]
         /\ members' = [m \in DOMAIN members |->
                IF members[m].party_id \in party_by_quest(q)
                THEN deleted(members[m])
                ELSE members[m]]
         /\ ratings' = {r \in ratings : r.party_id \notin party_by_quest(q)}
         /\ Respond("delete_quest", 200)
         /\ UNCHANGED reputation

(***************************************************************************)
(* Requests served at the same time: POST /parties and                     *)
(* POST /quests/{quest_id}/close cut at their database round trips.        *)
(***************************************************************************)
Finish(s, op, code) ==
    /\ last' = [op |-> op, code |-> code]
    /\ inflight' = [inflight EXCEPT ![s] = Idle]

Goto(s, pc, u, q, rows) ==
    /\ inflight' = [inflight EXCEPT ![s] =
            [pc |-> pc, user |-> u, quest |-> q, rows |-> rows, score |-> 0]]
    /\ UNCHANGED last

\* Worker t has flushed a Party row for quest q and not yet committed: the
\* unique index on Party.quest_id makes every other insert for q wait.
holds_party(t, q) ==
    /\ inflight[t].pc = "close_quest:commit"
    /\ inflight[t].quest = q
    /\ quests[q].quest_type = "INDIVIDUAL"

must_wait(s, q) == \E t \in Slots \ {s} : holds_party(t, q)

\* create_party up to crud.get_party_by_quest.
create_party_check(s, u, q) ==
    /\ inflight[s].pc = "idle"
    /\ IF q \notin QuestIds THEN Reject("create_party", 404)
       ELSE IF quests[q].creator_id # u /\ ~is_superuser(u)
       THEN Reject("create_party", 403)
       ELSE IF party_by_quest(q) # {} THEN Reject("create_party", 400)
       ELSE Goto(s, "create_party:insert", u, q, <<>>) /\ UNCHANGED tables

\* Mutant: Party.quest_id carries no unique index.
create_party_insert_unchecked(s) ==
    LET q == inflight[s].quest
    IN  /\ inflight[s].pc = "create_party:insert"
        /\ parties' = Append(parties, [quest_id |-> q, status |-> "ACTIVE"])
        /\ Goto(s, "create_party:member", inflight[s].user, q, <<>>)
        /\ UNCHANGED <<quests, applications, members, ratings, reputation>>

\* crud.create_party: INSERT and commit.  A Party of the quest committed
\* since the check makes the insert raise IntegrityError.
create_party_insert(s) ==
    LET q == inflight[s].quest
    IN  /\ inflight[s].pc = "create_party:insert"
        /\ ~must_wait(s, q)
        /\ IF party_by_quest(q) # {}
           THEN Finish(s, "create_party", 500) /\ UNCHANGED tables
           ELSE /\ parties' = Append(parties, [quest_id |-> q, status |-> "ACTIVE"])
                /\ Goto(s, "create_party:member", inflight[s].user, q, <<>>)
                /\ UNCHANGED <<quests, applications, members, ratings, reputation>>

\* crud.create_party_member: INSERT and commit of the OWNER row.
create_party_member(s) ==
    LET q == inflight[s].quest
    IN  /\ inflight[s].pc = "create_party:member"
        /\ Len(members) < MaxMembers
        /\ members' = Append(members,
               new_member(first_of(party_by_quest(q)), inflight[s].user, "OWNER"))
        /\ Finish(s, "create_party", 200)
        /\ UNCHANGED <<quests, applications, parties, ratings, reputation>>

\* close_quest up to the party size test: the quest row and approved_count
\* are read here.
close_quest_begin(s, u, q) ==
    /\ inflight[s].pc = "idle"
    /\ IF q \notin QuestIds THEN Reject("close_quest", 404)
       ELSE IF quests[q].status # "RECRUITING" THEN Reject("close_quest", 400)
       ELSE \E can_close \in can_manage(u, q) :
            IF ~can_close THEN Reject("close_quest", 403)
            ELSE IF party_size_unmet(q) THEN Reject("close_quest", 400)
            ELSE Goto(s, "close_quest:stage", u, q, <<>>) /\ UNCHANGED tables

\* The membership rows a close adds to the session, read now: the rows
\* close_members appends to the stored ones.
staged_members(q) == SubSeq(close_members(q), Len(members) + 1, Len(close_members(q)))

\* Mutant: the Party row is committed where the code only flushes it.
close_quest_stage_commits(s) ==
    LET q == inflight[s].quest
    IN  /\ inflight[s].pc = "close_quest:stage"
        /\ UNCHANGED <<quests, applications, members, ratings, reputation>>
        /\ IF quests[q].quest_type = "INDIVIDUAL"
           THEN /\ ~must_wait(s, q)
                /\ IF party_by_quest(q) # {}
                   THEN Finish(s, "close_quest", 500) /\ UNCHANGED parties
                   ELSE /\ parties' = close_parties(q)
                        /\ Goto(s, "close_quest:commit", inflight[s].user, q,
                                staged_members(q))
           ELSE /\ Goto(s, "close_quest:commit", inflight[s].user, q, staged_members(q))
                /\ UNCHANGED parties

\* session.flush() of the Party row (INDIVIDUAL), the query of the approved
\* applications and the loop over them.  Nothing is committed yet.
close_quest_stage(s) ==
    LET q == inflight[s].quest
    IN  /\ inflight[s].pc = "close_quest:stage"
        /\ UNCHANGED tables
        /\ IF quests[q].quest_type = "INDIVIDUAL"
           THEN /\ ~must_wait(s, q)
                /\ IF party_by_quest(q) # {}
                   THEN Finish(s, "close_quest", 500)
                   ELSE Goto(s, "close_quest:commit", inflight[s].user, q,
                             staged_members(q))
           ELSE Goto(s, "close_quest:commit", inflight[s].user, q, staged_members(q))

\* session.commit(): the staged Party and membership rows and the quest's
\* status are written together.  The status is written whatever it is now.
close_quest_commit(s) ==
    LET q == inflight[s].quest
        rows == inflight[s].rows
        \* the Party row gets its place in the table now
        placed == [i \in DOMAIN rows |->
                     IF quests[q].quest_type = "INDIVIDUAL"
                     THEN [rows[i] EXCEPT !.party_id = Len(parties) + 1]
                     ELSE rows[i]]
    IN  /\ inflight[s].pc = "close_quest:commit"
        /\ Len(members) + Len(rows) <= MaxMembers
        /\ parties' = close_parties(q)
        /\ members' = members \o placed
        /\ quests' = [quests EXCEPT ![q] =
               [@ EXCEPT !.status = "IN_PROGRESS", !.updated_at = "close_quest"]]
        /\ Finish(s, "close_quest", 200)
        /\ UNCHANGED <<applications, ratings, reputation>>

\* POST /quests/{quest_id}/apply served next to other requests.  The handler
\* reads the quest and the applicant's applications, and create_quest_application
\* inserts and commits afterwards: the table has no unique constraint on
\* (quest_id, applicant_id), so nothing stops the insert of a request whose
\* read was taken before another request's commit.
apply_to_quest_check(s, u, q, req) ==
    /\ inflight[s] = Idle
    /\ IF q \notin QuestIds THEN Reject("apply_to_quest", 404)
       ELSE IF quests[q].status # "RECRUITING" THEN Reject("apply_to_quest", 400)
       ELSE IF quests[q].creator_id = u THEN Reject("apply_to_quest", 400)
       ELSE IF already_applied(u, q) THEN Reject("apply_to_quest", 400)
       ELSE /\ Goto(s, "apply_to_quest:insert", u, q, <<req>>)
            /\ UNCHANGED tables

apply_to_quest_insert(s) ==
    LET req == inflight[s].rows[1]
    IN  /\ inflight[s].pc = "apply_to_quest:insert"
        /\ Len(applications) < MaxApplications
        /\ applications' = Append(applications,
                [quest_id |-> inflight[s].quest,
                 applicant_id |-> inflight[s].user,
                 status |-> "PENDING",
                 message |-> req.message,
                 proposed_role |-> req.proposed_role,
                 relevant_skills |-> req.relevant_skills,
                 reviewer_feedback |-> None,
                 reviewed_at |-> None,
                 updated_at |-> "apply_to_quest"])
        /\ Finish(s, "apply_to_quest", 200)
        /\ UNCHANGED <<quests, parties, members, ratings, reputation>>

\* The rating writes served next to other requests.  Each of them commits
\* the Rating row and only then calls _update_user_reputation, which reads the
\* average of the stored ratings (get_user_rating_summary) and, in a second
\* transaction, writes it to the user row.  Requests of other clients commit
\* between any two of these steps.
create_rating_commit(s, u, req) ==
    /\ inflight[s] = Idle
    /\ IF req.party_id \notin PartyIds THEN Reject("create_rating", 400)
       ELSE IF parties[req.party_id].status \notin {"COMPLETED", "ARCHIVED"}
       THEN Reject("create_rating", 400)
       ELSE IF ~is_active_member(u, req.party_id) THEN Reject("create_rating", 400)
       ELSE IF ~is_active_member(req.rated_user_id, req.party_id)
       THEN Reject("create_rating", 400)
       ELSE IF u = req.rated_user_id THEN Reject("create_rating", 400)
       ELSE IF rating_between(req.party_id, u, req.rated_user_id) # {}
       THEN Reject("create_rating", 400)
       ELSE /\ Cardinality(ratings) < MaxRatings
            /\ ratings' = ratings \cup
                   {[party_id |-> req.party_id, rater_id |-> u,
                     rated_user_id |-> req.rated_user_id,
                     overall_rating |-> req.overall_rating]}
            /\ Goto(s, "create_rating:read", req.rated_user_id, 0, <<>>)
            /\ UNCHANGED <<quests, applications, parties, members, reputation>>

update_rating_commit(s, u, r, req) ==
    /\ inflight[s] = Idle
    /\ IF r \notin ratings THEN Reject("update_rating", 404)
       ELSE IF r.rater_id # u THEN Reject("update_rating", 403)
       ELSE /\ ratings' = (ratings \ {r}) \cup
                   {[r EXCEPT !.overall_rating = merged_size(@, req.overall_rating)]}
            /\ Goto(s, "update_rating:read", r.rated_user_id, 0, <<>>)
            /\ UNCHANGED <<quests, applications, parties, members, reputation>>

delete_rating_commit(s, u, r) ==
    /\ inflight[s] = Idle
    /\ IF r \notin ratings THEN Reject("delete_rating", 404)
       ELSE IF r.rater_id # u THEN Reject("delete_rating", 403)
       ELSE /\ ratings' = ratings \ {r}
            /\ Goto(s, "delete_rating:read", r.rated_user_id, 0, <<>>)
            /\ UNCHANGED <<quests, applications, parties, members, reputation>>

\* The handler a request in _update_user_reputation returns to.
rating_handler(pc) ==
    CASE pc \in {"create_rating:read", "create_rating:write"} -> "create_rating"
      [] pc \in {"update_rating:read", "update_rating:write"} -> "update_rating"
      [] pc \in {"delete_rating:read", "delete_rating:write"} -> "delete_rating"

write_step(pc) ==
    CASE pc = "create_rating:read" -> "create_rating:write"
      [] pc = "update_rating:read" -> "update_rating:write"
      [] pc = "delete_rating:read" -> "delete_rating:write"

\* summary = get_user_rating_summary(...): the average of the rows stored now.
reputation_read(s) ==
    /\ inflight[s].pc \in {"create_rating:read", "update_rating:read",
                           "delete_rating:read"}
    /\ inflight' = [inflight EXCEPT ![s] =
           [@ EXCEPT !.pc = write_step(@),
                     !.score = average_overall(ratings, inflight[s].user)]]
    /\ UNCHANGED <<last, tables>>

\* user.reputation_score = reputation_score; session.commit()
reputation_write(s) ==
    /\ inflight[s].pc \in {"create_rating:write", "update_rating:write",
                           "delete_rating:write"}
    /\ reputation' = [reputation EXCEPT ![inflight[s].user] = inflight[s].score]
    /\ Finish(s, rating_handler(inflight[s].pc), 200)
    /\ UNCHANGED <<quests, applications, parties, members, ratings>>

(***************************************************************************)
(* The requests clients send.  Each specification below runs the handlers  *)
(* from the empty database under one family of requests.                   *)
(***************************************************************************)
\* Users who post quests; every user sends every other request.
Creators == {1}

NoQuestUpdate ==
    [status |-> Unset, party_size_min |-> 0, party_size_max |-> 0,
     quest_type |-> Unset, visibility |-> Unset, is_publicized |-> Unset]

NoApplicationUpdate ==
    [status |-> Unset, message |-> Unset, proposed_role |-> Unset,
     relevant_skills |-> Unset, reviewer_feedback |-> Unset]

QuestCreates ==
    [quest_type : {"INDIVIDUAL"}, party_size_min : Sizes, party_size_max : {2},
     visibility : QuestVisibility]

StatusUpdates ==
    {[NoQuestUpdate EXCEPT !.status = st] : st \in QuestStatus \cup {None}}

Applies == {[message |-> "m0", proposed_role |-> "r0", relevant_skills |-> None]}

Reviews ==
    {[NoApplicationUpdate EXCEPT !.status = st] : st \in {"APPROVED", "REJECTED"}}

(***************************************************************************)
(* Spec: the lifecycle of a quest posted by a user, its applications and   *)
(* the party formed for it.                                                *)
(***************************************************************************)
Next ==
    \/ \E u \in Creators, req \in QuestCreates : create_quest(u, req)
    \/ \E u \in Users, q \in QuestIds, req \in StatusUpdates : update_quest(u, q, req)
    \/ \E u \in Users, q \in QuestIds : close_quest(u, q)
    \/ \E u \in Users, q \in QuestIds : complete_quest(u, q)
    \/ \E u \in Users, q \in QuestIds : cancel_quest(u, q)
    \/ \E u \in Users, q \in AnyQuestId, req \in Applies : apply_to_quest(u, q, req)
    \/ \E u \in Users, a \in ApplicationIds, req \in Reviews :
            update_application(u, a, req)
    \/ \E u \in Users, a \in ApplicationIds : withdraw_application(u, a)
    \/ \E u \in Users, q \in QuestIds : create_party(u, q)

Spec == Init /\ [][Next]_vars

(***************************************************************************)
(* SpecParty: a quest, its party and the party's members, then a quest     *)
(* made from the party context, publicized, applied to and closed.         *)
(***************************************************************************)
SeedQuests ==
    {[quest_type |-> "INDIVIDUAL", party_size_min |-> 1, party_size_max |-> 2,
      visibility |-> "PUBLIC"]}

MemberCreates == [user_id : Users, role : {"MEMBER"}, status : {"active"}]

PartyQuestCreates ==
    [quest_type : {"PARTY_INTERNAL", "PARTY_EXPANSION", "PARTY_HYBRID"},
     party_size_min : {1}, party_size_max : {2}, visibility : {"PRIVATE"},
     assigned_member_ids : {<<>>}]

Publicizes == {[visibility |-> "PUBLIC"]}

Approvals == {[NoApplicationUpdate EXCEPT !.status = "APPROVED"]}

\* Party management and reviews come from the quest's creator; applications
\* go to the party's quests; every user asks to close.
PartyNext ==
    \/ \E u \in Creators, req \in SeedQuests : create_quest(u, req)
    \/ \E u \in Creators, q \in QuestIds : create_party(u, q)
    \/ \E u \in Creators, p \in PartyIds, req \in MemberCreates :
            add_party_member(u, p, req)
    \/ \E u \in Creators, p \in PartyIds, m \in MemberIds :
            remove_party_member(u, p, m)
    \/ \E u \in Creators, p \in PartyIds, req \in PartyQuestCreates :
            create_party_quest(u, p, req)
    \/ \E u \in Creators, q \in QuestIds, req \in Publicizes :
            publicize_quest(u, q, req)
    \/ \E u \in Users, q \in party_quests, req \in Applies : apply_to_quest(u, q, req)
    \/ \E u \in Creators, a \in ApplicationIds, req \in Approvals :
            update_application(u, a, req)
    \/ \E u \in Users, q \in QuestIds : close_quest(u, q)

SpecParty == Init /\ [][PartyNext]_vars

(***************************************************************************)
(* SpecReview: the applications of one quest under every status a client   *)
(* can send (a value or null), alone or with a new message, from every     *)
(* user.                                                                   *)
(***************************************************************************)
StatusRequests ==
    [status : {Unset, None, "PENDING", "APPROVED", "REJECTED", "WITHDRAWN"},
     message : {Unset, "m1"},
     proposed_role : {Unset},
     relevant_skills : {Unset},
     reviewer_feedback : {Unset}]

ReviewNext ==
    \/ \E u \in Creators, req \in SeedQuests : create_quest(u, req)
    \/ \E u \in Users, q \in QuestIds, req \in Applies : apply_to_quest(u, q, req)
    \/ \E u \in Users, a \in ApplicationIds, req \in StatusRequests :
            update_application(u, a, req)
    \/ \E u \in Users, a \in ApplicationIds : withdraw_application(u, a)

SpecReview == Init /\ [][ReviewNext]_vars

(***************************************************************************)
(* SpecEdit: the same applications under every combination of status,      *)
(* message and proposed role (a value or null).                            *)
(***************************************************************************)
ApplicationUpdates ==
    [status : {Unset, None, "PENDING", "APPROVED", "REJECTED", "WITHDRAWN"},
     message : {Unset, "m1"},
     proposed_role : {Unset, None, "r1"},
     relevant_skills : {Unset},
     reviewer_feedback : {Unset}]

EditNext ==
    \/ \E u \in Creators, req \in SeedQuests : create_quest(u, req)
    \/ \E u \in Users, q \in QuestIds, req \in Applies : apply_to_quest(u, q, req)
    \/ \E u \in Users, a \in ApplicationIds, req \in ApplicationUpdates :
            update_application(u, a, req)
    \/ \E u \in Users, a \in ApplicationIds : withdraw_application(u, a)

SpecEdit == Init /\ [][EditNext]_vars

(***************************************************************************)
(* SpecSizes: quests and party quests created and updated under every      *)
(* combination of party size bounds, sent or omitted.                      *)
(***************************************************************************)
SizedCreates ==
    [quest_type : {"INDIVIDUAL"}, party_size_min : Sizes, party_size_max : Sizes,
     visibility : {"PUBLIC"}]

\* 0 stands for a bound the request omits.
SizeUpdates ==
    {[NoQuestUpdate EXCEPT !.party_size_min = lo, !.party_size_max = hi] :
        lo \in {0} \cup Sizes, hi \in {0} \cup Sizes}

SizedPartyQuests ==
    [quest_type : {"PARTY_INTERNAL", "PARTY_EXPANSION"},
     party_size_min : {0} \cup Sizes, party_size_max : {0} \cup Sizes,
     visibility : {"PRIVATE"}, assigned_member_ids : {<<>>}]

SizesNext ==
    \/ \E u \in Creators, req \in SizedCreates : create_quest(u, req)
    \/ \E u \in Users, q \in QuestIds, req \in SizeUpdates : update_quest(u, q, req)
    \/ \E u \in Creators, q \in QuestIds : create_party(u, q)
    \/ \E u \in Users, p \in PartyIds, req \in SizedPartyQuests :
            create_party_quest(u, p, req)

SpecSizes == Init /\ [][SizesNext]_vars

(***************************************************************************)
(* SpecManage: a quest, its party with a second user added as MEMBER or    *)
(* MODERATOR and removed again, a quest made from the party, and every     *)
(* user asking to close, complete and cancel.                              *)
(***************************************************************************)
Recruits == Users \ (Creators \cup {NumUsers})

RecruitCreates == [user_id : Recruits, role : {"MEMBER", "MODERATOR"}, status : {"active"}]

InternalQuests ==
    {[quest_type |-> "PARTY_INTERNAL", party_size_min |-> 1, party_size_max |-> 2,
      visibility |-> "PRIVATE", assigned_member_ids |-> <<>>]}

ManageNext ==
    \/ \E u \in Creators, req \in SeedQuests : create_quest(u, req)
    \/ \E u \in Creators, q \in QuestIds : create_party(u, q)
    \/ \E u \in Creators, p \in PartyIds, req \in RecruitCreates :
            add_party_member(u, p, req)
    \/ \E u \in Creators, p \in PartyIds, m \in MemberIds :
            remove_party_member(u, p, m)
    \/ \E u \in Creators, p \in PartyIds, req \in InternalQuests :
            create_party_quest(u, p, req)
    \/ \E u \in Users, q \in QuestIds : close_quest(u, q)
    \/ \E u \in Users, q \in QuestIds : complete_quest(u, q)
    \/ \E u \in Users, q \in QuestIds : cancel_quest(u, q)

SpecManage == Init /\ [][ManageNext]_vars

(***************************************************************************)
(* SpecMembers: the memberships of one party: a second user added,         *)
(* updated in role and status, and removed, by every user.                 *)
(***************************************************************************)
MemberUpdates ==
    [role : {Unset, "MEMBER", "MODERATOR"}, status : {Unset, "active", "inactive"}]

MembersNext ==
    \/ \E u \in Creators, req \in SeedQuests : create_quest(u, req)
    \/ \E u \in Users, q \in QuestIds : create_party(u, q)
    \/ \E u \in Users, p \in PartyIds, req \in RecruitCreates :
            add_party_member(u, p, req)
    \/ \E u \in Users, p \in PartyIds, m \in MemberIds, req \in MemberUpdates :
            update_party_member(u, p, m, req)
    \/ \E u \in Users, p \in PartyIds, m \in MemberIds :
            remove_party_member(u, p, m)

SpecMembers == Init /\ [][MembersNext]_vars

(***************************************************************************)
(* SpecRatings: a party of up to three members, completed, whose members   *)
(* rate each other and change and delete their ratings.                    *)
(***************************************************************************)
Stars == {2, 5}

TeamQuests ==
    {[quest_type |-> "INDIVIDUAL", party_size_min |-> 1, party_size_max |-> 3,
      visibility |-> "PUBLIC"]}

Teammates == [user_id : Users \ Creators, role : {"MEMBER"}, status : {"active"}]

PartyUpdates == [status : {"COMPLETED", "ARCHIVED"}]

\* 0 stands for an overall_rating the request omits.
RatingUpdates == [overall_rating : Stars \cup {0}]

\* A rating id that names no row.
NoRating == [party_id |-> 0, rater_id |-> 0, rated_user_id |-> 0, overall_rating |-> 0]

RatingsNext ==
    \/ \E u \in Creators, req \in TeamQuests : create_quest(u, req)
    \/ \E u \in Creators, q \in QuestIds : create_party(u, q)
    \/ \E u \in Creators, p \in PartyIds, req \in Teammates :
            add_party_member(u, p, req)
    \/ \E u \in Creators, p \in PartyIds, m \in MemberIds :
            remove_party_member(u, p, m)
    \/ \E u \in Creators, p \in PartyIds, req \in PartyUpdates :
            update_party(u, p, req)
    \/ \E u \in Users, p \in AnyPartyId, v \in Users, n \in Stars :
            create_rating(u, [party_id |-> p, rated_user_id |-> v, overall_rating |-> n])
    \/ \E u \in Users, r \in ratings \cup {NoRating}, req \in RatingUpdates :
            update_rating(u, r, req)
    \/ \E u \in Users, r \in ratings \cup {NoRating} : delete_rating(u, r)

SpecRatings == Init /\ [][RatingsNext]_vars

(***************************************************************************)
(* SpecDelete: a quest with applications, a party with a second member,    *)
(* ratings and a quest made from the party, brought to several statuses    *)
(* and deleted, by every user.                                             *)
(***************************************************************************)
DeleteNext ==
    \/ \E u \in Creators, req \in TeamQuests : create_quest(u, req)
    \/ \E u \in Recruits, q \in QuestIds, req \in Applies :
            apply_to_quest(u, q, req)
    \/ \E u \in Creators, q \in QuestIds : create_party(u, q)
    \/ \E u \in Creators, p \in PartyIds, req \in RecruitCreates :
            add_party_member(u, p, req)
    \/ \E u \in Creators, p \in PartyIds, req \in InternalQuests :
            create_party_quest(u, p, req)
    \/ \E u \in Creators, q \in QuestIds : close_quest(u, q)
    \/ \E u \in Creators, q \in QuestIds : complete_quest(u, q)
    \/ \E u \in Creators, q \in QuestIds : cancel_quest(u, q)
    \/ \E u \in Creators, p \in PartyIds, req \in PartyUpdates :
            update_party(u, p, req)
    \/ \E u \in Creators, p \in PartyIds, v \in Recruits, n \in Stars :
            create_rating(u, [party_id |-> p, rated_user_id |-> v, overall_rating |-> n])
    \/ \E u \in Users, q \in AnyQuestId : delete_quest(u, q)

SpecDelete == Init /\ [][DeleteNext]_vars

(***************************************************************************)
(* SpecRace: a quest with an approved applicant, its party, and a quest    *)
(* that expands the party, with explicit party creation and close served   *)
(* by two workers at the same time.                                        *)
(***************************************************************************)
ExpansionQuests ==
    {[quest_type |-> "PARTY_EXPANSION", party_size_min |-> 1, party_size_max |-> 2,
      visibility |-> "PUBLIC", assigned_member_ids |-> <<>>]}

RaceNext ==
    \/ \E u \in Creators, req \in SeedQuests : create_quest(u, req)
    \/ \E u \in Recruits, q \in QuestIds, req \in Applies : apply_to_quest(u, q, req)
    \/ \E u \in Creators, a \in ApplicationIds, req \in Approvals :
            update_application(u, a, req)
    \/ \E u \in Creators, p \in PartyIds, req \in ExpansionQuests :
            create_party_quest(u, p, req)
    \/ \E s \in Slots, u \in Users, q \in QuestIds : create_party_check(s, u, q)
    \/ \E s \in Slots : create_party_insert(s)
    \/ \E s \in Slots : create_party_member(s)
    \/ \E s \in Slots, u \in Users, q \in QuestIds : close_quest_begin(s, u, q)
    \/ \E s \in Slots : close_quest_stage(s)
    \/ \E s \in Slots : close_quest_commit(s)

SpecRace == Init /\ [][RaceNext]_vars

(***************************************************************************)
(* SpecAssign: a quest posted with any quest type, a party whose second    *)
(* member is added and removed, internal and hybrid quests made from the   *)
(* party with assigned members, and every user asking to publicize and to  *)
(* assign members.                                                         *)
(***************************************************************************)
TypedCreates ==
    [quest_type : {"INDIVIDUAL", "PARTY_INTERNAL", "PARTY_HYBRID"},
     party_size_min : {1}, party_size_max : {2}, visibility : {"PRIVATE"}]

Assignments == {<<2>>, <<1, 2>>, <<3>>}

AssignedQuests ==
    [quest_type : {"PARTY_INTERNAL", "PARTY_HYBRID"},
     party_size_min : {1}, party_size_max : {2}, visibility : {"PRIVATE"},
     assigned_member_ids : Assignments \cup {<<>>}]

AssignNext ==
    \/ \E u \in Creators, req \in TypedCreates : create_quest(u, req)
    \/ \E u \in Creators, q \in QuestIds : create_party(u, q)
    \/ \E u \in Creators, p \in PartyIds, req \in RecruitCreates :
            add_party_member(u, p, req)
    \/ \E u \in Creators, p \in PartyIds, m \in MemberIds :
            remove_party_member(u, p, m)
    \/ \E u \in Users, p \in PartyIds, req \in AssignedQuests :
            create_party_quest(u, p, req)
    \/ \E u \in Users, q \in QuestIds, req \in Publicizes :
            publicize_quest(u, q, req)
    \/ \E u \in Users, q \in QuestIds, ids \in Assignments :
            assign_quest_members(u, q, [assigned_member_ids |-> ids])

SpecAssign == Init /\ [][AssignNext]_vars

(***************************************************************************)
(* SpecApply: users apply to a recruiting quest from several clients at    *)
(* once, the creator reviews and applicants withdraw.                      *)
(***************************************************************************)
ApplyNext ==
    \/ \E u \in Creators, req \in SeedQuests : create_quest(u, req)
    \/ \E s \in Slots, u \in Users, q \in AnyQuestId, req \in Applies :
            apply_to_quest_check(s, u, q, req)
    \/ \E s \in Slots : apply_to_quest_insert(s)
    \/ \E u \in Creators, a \in ApplicationIds, req \in Reviews :
            update_application(u, a, req)
    \/ \E u \in Users, a \in ApplicationIds : withdraw_application(u, a)

SpecApply == Init /\ [][ApplyNext]_vars

(***************************************************************************)
(* SpecScores: the members of a completed party rate its second member    *)
(* from several clients at once, and change and delete those ratings.      *)
(***************************************************************************)
ScoreNext ==
    \/ \E u \in Creators, req \in TeamQuests : create_quest(u, req)
    \/ \E u \in Creators, q \in QuestIds : create_party(u, q)
    \/ \E u \in Creators, p \in PartyIds, req \in Teammates :
            add_party_member(u, p, req)
    \/ \E u \in Creators, p \in PartyIds, req \in PartyUpdates :
            update_party(u, p, req)
    \/ \E s \in Slots, u \in Users, p \in PartyIds, v \in Recruits, n \in Stars :
            create_rating_commit(s, u,
                [party_id |-> p, rated_user_id |-> v, overall_rating |-> n])
    \/ \E s \in Slots, u \in Users, r \in ratings, req \in RatingUpdates :
            update_rating_commit(s, u, r, req)
    \/ \E s \in Slots, u \in Users, r \in ratings : delete_rating_commit(s, u, r)
    \/ \E s \in Slots : reputation_read(s)
    \/ \E s \in Slots : reputation_write(s)

SpecScores == Init /\ [][ScoreNext]_vars

(***************************************************************************)
(* SpecNotes: updates of an application that carry the skills and the      *)
(* reviewer's feedback, alone or next to a status or a message.            *)
(***************************************************************************)
NoteUpdates ==
    [status : {Unset, "APPROVED"},
     message : {Unset, "m1"},
     proposed_role : {Unset},
     relevant_skills : {Unset, "s1"},
     reviewer_feedback : {Unset, "f1"}]

NotesNext ==
    \/ \E u \in Creators, req \in SeedQuests : create_quest(u, req)
    \/ \E u \in Users, q \in QuestIds, req \in Applies : apply_to_quest(u, q, req)
    \/ \E u \in Users, a \in ApplicationIds, req \in NoteUpdates :
            update_application(u, a, req)

SpecNotes == Init /\ [][NotesNext]_vars

(***************************************************************************)
(* Vocabulary of the properties.                                           *)
(***************************************************************************)
LegalEdges ==
    {<<"RECRUITING", "IN_PROGRESS">>, <<"IN_PROGRESS", "COMPLETED">>,
     <<"RECRUITING", "CANCELLED">>, <<"IN_PROGRESS", "CANCELLED">>}

\* Applications of quest q with a status in sts, and the users who hold one.
ApplicationsIn(q, sts) ==
    {a \in ApplicationIds :
        applications[a].quest_id = q /\ applications[a].status \in sts}
ApplicantsIn(q, sts) == {applications[a].applicant_id : a \in ApplicationsIn(q, sts)}

\* The active rows of party p after the step, and the rows of user u among them.
ActiveAfter(p) ==
    {m \in DOMAIN members' :
        members'[m].party_id = p /\ members'[m].status = "active"}
RowsAfter(p, u) == {m \in DOMAIN members' :
        members'[m].party_id = p /\ members'[m].user_id = u}
PartiesAfter(q) == {p \in DOMAIN parties' : parties'[p].quest_id = q}

(***************************************************************************)
(* C1.  A quest's status moves only along RECRUITING->IN_PROGRESS,         *)
(* IN_PROGRESS->COMPLETED, RECRUITING->CANCELLED, IN_PROGRESS->CANCELLED,  *)
(* whichever operation carries the change, and never back to RECRUITING.   *)
(* Refuted: update writes any status the request carries.                  *)
(***************************************************************************)
C1_StatusFollowsEdges ==
    [][\A q \in QuestIds :
          \/ quests'[q].status = quests[q].status
          \/ <<quests[q].status, quests'[q].status>> \in LegalEdges]_vars

(***************************************************************************)
(* C2.  A successful close of an INDIVIDUAL quest with N APPROVED          *)
(* applications leaves the quest IN_PROGRESS and exactly one party bound   *)
(* to it, whose active members are exactly N+1: the creator as OWNER and   *)
(* each approved applicant as MEMBER; a user who holds no APPROVED         *)
(* application for the quest (only PENDING, REJECTED or WITHDRAWN ones)    *)
(* has no row in the party.                                                *)
(***************************************************************************)
C2_CloseIndividualFormsParty ==
    [][\A u \in Users, q \in QuestIds :
          (/\ close_quest(u, q)
           /\ last'.code = 200
           /\ quests[q].quest_type = "INDIVIDUAL")
          => /\ quests'[q].status = "IN_PROGRESS"
             /\ Cardinality(PartiesAfter(q)) = 1
             /\ \A p \in PartiesAfter(q) :
                  /\ Cardinality(ActiveAfter(p))
                        = Cardinality(ApplicationsIn(q, {"APPROVED"})) + 1
                  /\ \E m \in ActiveAfter(p) :
                        /\ members'[m].user_id = quests[q].creator_id
                        /\ members'[m].role = "OWNER"
                  /\ \A v \in ApplicantsIn(q, {"APPROVED"}) :
                        \E m \in ActiveAfter(p) :
                            members'[m].user_id = v /\ members'[m].role = "MEMBER"
                  /\ \A v \in ApplicantsIn(q, {"PENDING", "REJECTED", "WITHDRAWN"})
                            \ ApplicantsIn(q, {"APPROVED"}) :
                        RowsAfter(p, v) = {}]_vars

\* A close has just formed a party from one approved applicant or more while
\* another application of the quest is not approved.
C2_Witness ==
    /\ last = [op |-> "close_quest", code |-> 200]
    /\ \E q \in QuestIds :
          /\ quests[q].quest_type = "INDIVIDUAL"
          /\ quests[q].status = "IN_PROGRESS"
          /\ ApplicationsIn(q, {"APPROVED"}) # {}
          /\ ApplicationsIn(q, {"PENDING", "REJECTED", "WITHDRAWN"}) # {}
          /\ \E p \in PartyIds :
                parties[p].quest_id = q /\ Cardinality(active_members(p)) >= 2

RowsBefore(p, u) ==
    {m \in MemberIds : members[m].party_id = p /\ members[m].user_id = u}
Newcomers(q) ==
    {v \in ApplicantsIn(q, {"APPROVED"}) :
        RowsBefore(quests[q].parent_party_id, v) = {}}
AddedRows == {m \in DOMAIN members' : m > Len(members)}

C4_CloseExpansionMergesMembers ==
    [][\A u \in Users, q \in QuestIds :
          (/\ close_quest(u, q)
           /\ last'.code = 200
           /\ quests[q].quest_type = "PARTY_EXPANSION")
          => /\ parties' = parties
             /\ Len(members') >= Len(members)
             /\ SubSeq(members', 1, Len(members)) = members
             /\ IF quests[q].parent_party_id = NoParty
                THEN members' = members
                ELSE /\ Cardinality(AddedRows) = Cardinality(Newcomers(q))
                     /\ \A v \in Newcomers(q) :
                           \E m \in AddedRows :
                               members'[m] = [party_id |-> quests[q].parent_party_id,
                                              user_id |-> v, role |-> "MEMBER",
                                              status |-> "active", left_at |-> None]
                     /\ \A v \in Users :
                           Cardinality(RowsAfter(quests[q].parent_party_id, v))
                              <= IF RowsBefore(quests[q].parent_party_id, v) = {}
                                 THEN 1
                                 ELSE Cardinality(RowsBefore(quests[q].parent_party_id, v))
            ]_vars

\* A close of an expansion quest with two approved applicants has just added
\* the last membership row for one of them, while the other, a removed
\* member of the parent party, keeps the inactive row they had.
C4_Witness ==
    /\ last = [op |-> "close_quest", code |-> 200]
    /\ \E q \in QuestIds :
          /\ quests[q].quest_type = "PARTY_EXPANSION"
          /\ quests[q].updated_at = "close_quest"
          /\ quests[q].parent_party_id # NoParty
          /\ \E v, w \in ApplicantsIn(q, {"APPROVED"}) :
                /\ v # w
                /\ \E m \in MemberIds :
                      /\ m < Len(members)
                      /\ members[m].party_id = quests[q].parent_party_id
                      /\ members[m].user_id = v
                      /\ members[m].status = "inactive"
                /\ members[Len(members)] =
                      [party_id |-> quests[q].parent_party_id, user_id |-> w,
                       role |-> "MEMBER", status |-> "active", left_at |-> None]

(***************************************************************************)
(* C5.  A successful close of a PARTY_INTERNAL quest changes the quest     *)
(* alone: its status becomes IN_PROGRESS and updated_at is stamped; no     *)
(* party row, membership row or application is created or changed.         *)
(***************************************************************************)
C5_CloseInternalTouchesQuestOnly ==
    [][\A u \in Users, q \in QuestIds :
          (/\ close_quest(u, q)
           /\ last'.code = 200
           /\ quests[q].quest_type = "PARTY_INTERNAL")
          => /\ parties' = parties
             /\ members' = members
             /\ applications' = applications
             /\ quests' = [quests EXCEPT ![q] =
                    [@ EXCEPT !.status = "IN_PROGRESS",
                              !.updated_at = "close_quest"]]]_vars

\* An internal quest with a parent party has just been closed while it holds
\* an approved application of a user with no row in that party.
C5_Witness ==
    /\ last = [op |-> "close_quest", code |-> 200]
    /\ \E q \in QuestIds :
          /\ quests[q].quest_type = "PARTY_INTERNAL"
          /\ quests[q].status = "IN_PROGRESS"
          /\ quests[q].updated_at = "close_quest"
          /\ quests[q].parent_party_id # NoParty
          /\ \E v \in ApplicantsIn(q, {"APPROVED"}) :
                RowsBefore(quests[q].parent_party_id, v) = {}

(***************************************************************************)
(* C6.  A close of a PARTY_HYBRID quest follows is_publicized: not         *)
(* publicized, it changes no party or membership row; publicized, it       *)
(* gives every approved applicant without a row in the parent party an     *)
(* active MEMBER row there.                                                *)
(* Refuted: close has no branch for PARTY_HYBRID and never adds a member.  *)
(***************************************************************************)
C6_CloseHybridFollowsPublicized ==
    [][\A u \in Users, q \in QuestIds :
          (/\ close_quest(u, q)
           /\ last'.code = 200
           /\ quests[q].quest_type = "PARTY_HYBRID")
          => IF ~quests[q].is_publicized
             THEN parties' = parties /\ members' = members
             ELSE \A v \in ApplicantsIn(q, {"APPROVED"}) :
                     \E m \in ActiveAfter(quests[q].parent_party_id) :
                         members'[m].user_id = v]_vars

C8_PrivateQuestRefusesApply ==
    [][\A u \in Users, q \in QuestIds, req \in Applies :
          (/\ apply_to_quest(u, q, req)
           /\ quests[q].visibility = "PRIVATE"
           /\ quests[q].status = "RECRUITING"
           /\ quests[q].creator_id # u
           /\ u \notin ApplicantsIn(q, {"PENDING", "APPROVED"}))
          => /\ last'.code = 403
             /\ applications' = applications]_vars

(***************************************************************************)
(* C9.  Application status is one-way: an application that is APPROVED,    *)
(* REJECTED or WITHDRAWN keeps that status through every step; no update   *)
(* that carries a status and no withdraw aimed at it is accepted, whoever  *)
(* sends it, and a rejected request leaves every application as it was.   *)
(***************************************************************************)
Terminal == {"APPROVED", "REJECTED", "WITHDRAWN"}

C9_TerminalStatusIsFinal ==
    [][/\ \A a \in ApplicationIds :
             applications[a].status \in Terminal
             => applications'[a].status = applications[a].status
       /\ last'.op \in {"update_application", "withdraw_application"}
          /\ last'.code # 200
          => applications' = applications
       /\ last'.op = "withdraw_application" /\ last'.code = 200
          => \A u \in Users, a \in ApplicationIds :
                applications[a].status \in Terminal => ~withdraw_application(u, a)
       /\ last'.op = "update_application" /\ last'.code = 200
          => \A a \in ApplicationIds, req \in StatusRequests, u \in Users :
                applications[a].status \in Terminal /\ req.status # Unset
                => ~update_application(u, a, req)]_vars

\* The quest's creator has just been refused a status change while every
\* application is already APPROVED, REJECTED or WITHDRAWN.
C9_Witness ==
    /\ last = [op |-> "update_application", code |-> 400]
    /\ applications # <<>>
    /\ \A a \in ApplicationIds : applications[a].status \in Terminal

(***************************************************************************)
(* C10.  In update of an application the status changes only at the hand   *)
(* of the quest's creator or a superuser, the message and the proposed     *)
(* role only at the hand of the applicant or a superuser, and each only    *)
(* while the application is PENDING; a request that carries such a field   *)
(* against these rules is answered 403 (wrong actor) or 400 (not PENDING)  *)
(* and changes nothing, whatever else it carries.                          *)
(* Refuted: a proposed_role sent as null skips the applicant check.        *)
(***************************************************************************)
C10_FieldsChangeByTheirOwner ==
    [][\A u \in Users, a \in ApplicationIds, req \in ApplicationUpdates :
          update_application(u, a, req)
          => LET app == applications[a]
                 reviewer == quests[app.quest_id].creator_id = u \/ is_superuser(u)
                 author == app.applicant_id = u \/ is_superuser(u)
                 edits == req.message # Unset \/ req.proposed_role # Unset
                 wrong_actor == \/ req.status # Unset /\ ~reviewer
                                \/ edits /\ ~author
                 asks == req.status # Unset \/ edits
             IN  /\ applications'[a].status # app.status
                    => reviewer /\ app.status = "PENDING"
                 /\ \/ applications'[a].message # app.message
                    \/ applications'[a].proposed_role # app.proposed_role
                    => author /\ app.status = "PENDING"
                 /\ asks /\ (wrong_actor \/ app.status # "PENDING")
                    => last'.code \in {400, 403} /\ applications' = applications
                 /\ wrong_actor /\ app.status = "PENDING" => last'.code = 403
                 /\ asks /\ ~wrong_actor /\ app.status # "PENDING"
                    => last'.code = 400]_vars

(***************************************************************************)
(* C11.  An application goes from PENDING to WITHDRAWN only at the hand of *)
(* its own applicant: a withdraw, or an update that sets WITHDRAWN, sent   *)
(* by anyone else is rejected and leaves the application PENDING.          *)
(* Refuted: the quest's creator sets WITHDRAWN through update.             *)
(***************************************************************************)
C11_OnlyApplicantWithdraws ==
    [][\A a \in ApplicationIds, u \in Users :
          /\ applications[a].status = "PENDING"
          /\ applications[a].applicant_id # u
          => /\ withdraw_application(u, a)
                => last'.code # 200 /\ applications'[a].status = "PENDING"
             /\ \A req \in StatusRequests :
                   req.status = "WITHDRAWN" /\ update_application(u, a, req)
                   => last'.code # 200 /\ applications'[a].status = "PENDING"]_vars

(***************************************************************************)
(* C12.  Every quest has party_size_min <= party_size_max in every         *)
(* reachable state: creation, party-quest creation and update reject a     *)
(* violating pair, update judging the stored bound against the sent one    *)
(* when only one is sent.                                                  *)
(* Refuted: update compares the two bounds only when both are sent.        *)
(***************************************************************************)
C12_SizesOrdered ==
    \A q \in QuestIds : quests[q].party_size_min <= quests[q].party_size_max

(***************************************************************************)
(* C13.  Update changes a quest only for its creator or a superuser and    *)
(* only while the quest is RECRUITING: an update from anyone else, or on a *)
(* quest that is IN_PROGRESS, COMPLETED or CANCELLED, is rejected and      *)
(* changes nothing.                                                        *)
(* Refuted: update never reads the quest's status.                         *)
(***************************************************************************)
C13_UpdateOnlyWhileRecruiting ==
    [][last'.op = "update_quest"
       => \A u \in Users, q \in QuestIds, req \in StatusUpdates :
             /\ update_quest(u, q, req)
             /\ \/ quests[q].creator_id # u /\ ~is_superuser(u)
                \/ quests[q].status # "RECRUITING"
             => last'.code # 200 /\ quests' = quests]_vars

(***************************************************************************)
(* C14.  Close, complete and cancel asked by a user who is not the quest's *)
(* creator, not a superuser and not an active OWNER or MODERATOR of the    *)
(* quest's parent party (a plain member, a removed leader, anyone when the *)
(* quest has no parent party) are rejected and leave the quest's status,   *)
(* the parties and the memberships as they were.                           *)
(***************************************************************************)
Permitted(u, q) ==
    \/ quests[q].creator_id = u
    \/ is_superuser(u)
    \/ /\ quests[q].parent_party_id # NoParty
       /\ \E m \in MemberIds :
             /\ members[m].party_id = quests[q].parent_party_id
             /\ members[m].user_id = u
             /\ members[m].status = "active"
             /\ members[m].role \in {"OWNER", "MODERATOR"}

C14_OutsidersCannotManage ==
    [][\A u \in Users, q \in QuestIds :
          /\ ~Permitted(u, q)
          /\ close_quest(u, q) \/ complete_quest(u, q) \/ cancel_quest(u, q)
          => /\ last'.code \in {400, 403}
             /\ quests'[q].status = quests[q].status
             /\ parties' = parties
             /\ members' = members]_vars

\* A removed MODERATOR has just been refused the completion of the party's
\* quest, the only quest in progress.
C14_Witness ==
    /\ last = [op |-> "complete_quest", code |-> 403]
    /\ \E q \in QuestIds : quests[q].status = "IN_PROGRESS"
    /\ \A q \in QuestIds :
          quests[q].status = "IN_PROGRESS"
          => /\ quests[q].parent_party_id # NoParty
             /\ \E m \in MemberIds :
                   /\ members[m].party_id = quests[q].parent_party_id
                   /\ members[m].user_id \in Recruits
                   /\ members[m].role = "MODERATOR"
                   /\ members[m].status = "inactive"
             /\ \A u \in Recruits : ~Permitted(u, q)

(***************************************************************************)
(* C15.  Among close, complete and cancel: close is accepted only from     *)
(* RECRUITING, complete only from IN_PROGRESS and it sets completed_at,    *)
(* cancel only from RECRUITING or IN_PROGRESS; COMPLETED and CANCELLED are *)
(* absorbing, each of the three on such a quest is answered 400 and leaves *)
(* the quest as it was; a quest's status only moves forward, so close and  *)
(* complete are each accepted at most once per quest.                      *)
(***************************************************************************)
Rank(st) == IF st = "RECRUITING" THEN 0 ELSE IF st = "IN_PROGRESS" THEN 1 ELSE 2

C15_LifecycleOperations ==
    [][\A q \in QuestIds :
          /\ Rank(quests'[q].status) >= Rank(quests[q].status)
          /\ quests[q].status \in {"COMPLETED", "CANCELLED"} => quests'[q] = quests[q]
          /\ \A u \in Users :
                /\ close_quest(u, q) /\ last'.code = 200
                   => /\ quests[q].status = "RECRUITING"
                      /\ quests'[q].status = "IN_PROGRESS"
                /\ complete_quest(u, q) /\ last'.code = 200
                   => /\ quests[q].status = "IN_PROGRESS"
                      /\ quests'[q].status = "COMPLETED"
                      /\ quests[q].completed_at = None
                      /\ quests'[q].completed_at # None
                /\ cancel_quest(u, q) /\ last'.code = 200
                   => /\ quests[q].status \in {"RECRUITING", "IN_PROGRESS"}
                      /\ quests'[q].status = "CANCELLED"
                /\ /\ quests[q].status \in {"COMPLETED", "CANCELLED"}
                   /\ close_quest(u, q) \/ complete_quest(u, q) \/ cancel_quest(u, q)
                   => last'.code = 400 /\ quests' = quests]_vars

\* Every quest is COMPLETED or CANCELLED, one of each, the completed one
\* carries completed_at, and a cancel has just been answered 400.
C15_Witness ==
    /\ last = [op |-> "cancel_quest", code |-> 400]
    /\ \A q \in QuestIds : quests[q].status \in {"COMPLETED", "CANCELLED"}
    /\ \E q \in QuestIds : quests[q].status = "CANCELLED"
    /\ \E q \in QuestIds :
          quests[q].status = "COMPLETED" /\ quests[q].completed_at = "complete_quest"

(***************************************************************************)
(* C16.  Whenever a quest, its party and a membership row of the quest's   *)
(* creator in that party exist, that row is active: removing it is         *)
(* rejected whoever asks, and no other operation, update of a party member *)
(* in particular, deactivates it.                                          *)
(* Refuted: update of a party member writes any status for any caller.     *)
(***************************************************************************)
C16_CreatorStaysActive ==
    \A m \in MemberIds :
        /\ members[m].party_id \in PartyIds
        /\ parties[members[m].party_id].quest_id \in QuestIds
        /\ members[m].user_id = quests[parties[members[m].party_id].quest_id].creator_id
        => members[m].status = "active"

(***************************************************************************)
(* C17.  An accepted removal of a party member deletes no row: the row     *)
(* stays, inactive and with left_at set, and nothing else changes.  A row  *)
(* so removed counts for nothing: a user whose only rows are removed ones  *)
(* has no leader rights in the party, and the removed row neither blocks   *)
(* nor fills a place when a member is added.                               *)
(***************************************************************************)
ActiveRows(p) ==
    {m \in MemberIds : members[m].party_id = p /\ members[m].status = "active"}

Leads(u, p) ==
    \/ is_superuser(u)
    \/ parties[p].quest_id \in QuestIds /\ quests[parties[p].quest_id].creator_id = u
    \/ \E m \in ActiveRows(p) :
          members[m].user_id = u /\ members[m].role \in {"OWNER", "MODERATOR"}

ActiveIn(u, p) ==
    \E m \in MemberIds :
        members[m].party_id = p /\ members[m].user_id = u /\ members[m].status = "active"

MayRate(u, p, v) ==
    /\ p \in PartyIds
    /\ parties[p].status \in {"COMPLETED", "ARCHIVED"}
    /\ ActiveIn(u, p)
    /\ ActiveIn(v, p)
    /\ u # v
    /\ ~\E r \in ratings : r.party_id = p /\ r.rater_id = u /\ r.rated_user_id = v

C18_RatingCreatedExactlyWhen ==
    [][last'.op = "create_rating"
       => /\ last'.code \in {200, 400}
          \* an accepted request adds its row, and was entitled to
          /\ last'.code = 200
             => \E r \in ratings' \ ratings :
                   /\ ratings' = ratings \cup {r}
                   /\ MayRate(r.rater_id, r.party_id, r.rated_user_id)
          \* a rejected request changes nothing, and was not entitled to
          /\ last'.code = 400
             => /\ ratings' = ratings
                /\ reputation' = reputation
                /\ \A u \in Users, p \in PartyIds, v \in Users :
                      MayRate(u, p, v)
                      => \A n \in Stars :
                            ~create_rating(u, [party_id |-> p, rated_user_id |-> v,
                                               overall_rating |-> n])]_vars

\* A second rating has just been accepted in an archived party.
C18_Witness ==
    /\ last = [op |-> "create_rating", code |-> 200]
    /\ Cardinality(ratings) = 2
    /\ \A r \in ratings : parties[r.party_id].status = "ARCHIVED"

(***************************************************************************)
(* C19.  After every accepted create, update or delete of a rating, the    *)
(* reputation_score of each user whose received ratings it touched is the  *)
(* mean of overall_rating over the ratings the user now has, to two        *)
(* decimal places, and 0.0 when the user has none; no other user's score   *)
(* changes.                                                                *)
(***************************************************************************)
\* s hundredths is the mean of the user's ratings to two decimal places.
IsMeanOf(s, rows) ==
    IF rows = {} THEN s = 0
    ELSE LET d == 100 * total_overall(rows) - Cardinality(rows) * s
         IN  2 * d <= Cardinality(rows) /\ -2 * d <= Cardinality(rows)

C19_ReputationIsMean ==
    [][/\ last'.op \in {"create_rating", "update_rating", "delete_rating"}
       /\ last'.code = 200
       => \A u \in Users :
             IF received(ratings', u) # received(ratings, u)
             THEN IsMeanOf(reputation'[u], received(ratings', u))
             ELSE reputation'[u] = reputation[u]]_vars

\* A rating has just been changed and its user now has the two ratings
\* 2 and 5 and the score 3.50.
C19_Witness ==
    /\ last = [op |-> "update_rating", code |-> 200]
    /\ \E u \in Users :
          /\ {r.overall_rating : r \in received(ratings, u)} = {2, 5}
          /\ reputation[u] = 350

(***************************************************************************)
(* C20.  A delete of a quest is accepted exactly when the requester is the *)
(* quest's creator or a superuser, whatever the quest's status.  After an  *)
(* accepted delete the quest, its applications, its party, the party's     *)
(* memberships and the party's ratings are gone and every other row is     *)
(* kept (a quest made from the party loses its parent_party_id).  A delete *)
(* asked by anyone else is answered 403 and changes no table.              *)
(***************************************************************************)
MayDelete(u, q) == quests[q].creator_id = u \/ is_superuser(u)

C20_DeleteCascades ==
    [][last'.op = "delete_quest"
       => /\ last'.code \in {200, 403, 404}
          /\ last'.code = 200
             => \E q \in QuestIds \ QuestIds' :
                   /\ \A u \in Users : delete_quest(u, q) => MayDelete(u, q)
                   /\ QuestIds' = QuestIds \ {q}
                   /\ ApplicationIds' =
                          {a \in ApplicationIds : applications[a].quest_id # q}
                   /\ PartyIds' = PartyIds \ party_by_quest(q)
                   /\ MemberIds' =
                          {m \in MemberIds : members[m].party_id \notin party_by_quest(q)}
                   /\ ratings' = {r \in ratings : r.party_id \notin party_by_quest(q)}
                   /\ \A a \in ApplicationIds' : applications'[a] = applications[a]
                   /\ \A p \in PartyIds' : parties'[p] = parties[p]
                   /\ \A m \in MemberIds' : members'[m] = members[m]
                   /\ \A k \in QuestIds' :
                          quests'[k] =
                             IF quests[k].parent_party_id \in party_by_quest(q)
                             THEN [quests[k] EXCEPT !.parent_party_id = NoParty]
                             ELSE quests[k]
          /\ last'.code # 200
             => /\ UNCHANGED tables
                /\ \A u \in Users, q \in QuestIds :
                      MayDelete(u, q) => ~delete_quest(u, q)
          /\ last'.code = 403
             => \E u \in Users, q \in QuestIds :
                   ~MayDelete(u, q) /\ delete_quest(u, q)]_vars

\* A quest has just been deleted together with an application, its party, a
\* membership and the party's ratings, whose rated user keeps the score; a
\* quest made from the party remains.
C20_Witness ==
    /\ last = [op |-> "delete_quest", code |-> 200]
    /\ \E a \in DOMAIN applications : a \notin ApplicationIds
    /\ \E p \in DOMAIN parties : p \notin PartyIds
    /\ \E m \in DOMAIN members : m \notin MemberIds
    /\ ratings = {}
    /\ \E u \in Users : reputation[u] # 0
    /\ \E k \in QuestIds : quests[k].quest_type = "PARTY_INTERNAL"

C22_OwnerIsQuestCreator ==
    [][/\ last'.op \in {"create_party", "close_quest"}
       /\ last'.code = 200
       => \A p \in PartyIds' \ PartyIds :
             LET owners == {m \in DOMAIN members' :
                              /\ members'[m].party_id = p
                              /\ members'[m].role = "OWNER"}
             IN  /\ Cardinality(owners) = 1
                 /\ \A m \in owners :
                       members'[m].user_id = quests[parties'[p].quest_id].creator_id]_vars

(***************************************************************************)
(* C23.  An update of a party membership is accepted only from a           *)
(* superuser, the quest's creator, an active OWNER or MODERATOR of the     *)
(* party, or the member themselves, and one that sets the role OWNER or    *)
(* MODERATOR only from the first three; any other update request, whatever *)
(* fields it carries, is answered 403 and leaves the membership as it was. *)
(* Refuted: a request that carries no role passes for every requester.     *)
(***************************************************************************)
MayUpdateMember(u, p, m, req) ==
    \/ is_superuser(u)
    \/ is_party_quest_creator(u, p)
    \/ is_leader(u, p)
    \/ members[m].user_id = u /\ req.role \notin {"OWNER", "MODERATOR"}

C23_MemberUpdateNeedsRight ==
    [][last'.op = "update_party_member"
       => \A u \in Users, p \in PartyIds, m \in MemberIds, req \in MemberUpdates :
             /\ members[m].party_id = p
             /\ ~MayUpdateMember(u, p, m, req)
             /\ update_party_member(u, p, m, req)
             => last'.code = 403 /\ members' = members]_vars

(***************************************************************************)
(* C24.  Publicize and assign-members are accepted only from a superuser,  *)
(* the quest's creator, or an active OWNER or MODERATOR of the quest's     *)
(* parent party: on every PARTY_INTERNAL or PARTY_HYBRID quest, with or    *)
(* without a parent party, a request of any other user is rejected (403,   *)
(* or 400 where the quest's own state refuses the request) and leaves the  *)
(* quest as it was.                                                        *)
(* Refuted: without a parent party the requester is not tested at all.     *)
(***************************************************************************)
C24_OnlyManagersPublicizeAndAssign ==
    [][last'.op \in {"publicize_quest", "assign_quest_members"}
       => \A u \in Users, q \in QuestIds :
             /\ quests[q].quest_type \in {"PARTY_INTERNAL", "PARTY_HYBRID"}
             /\ ~Permitted(u, q)
             /\ \/ \E req \in Publicizes : publicize_quest(u, q, req)
                \/ \E ids \in Assignments :
                      assign_quest_members(u, q, [assigned_member_ids |-> ids])
             => last'.code \in {400, 403} /\ quests' = quests]_vars

(***************************************************************************)
(* C25.  On a PARTY_INTERNAL quest that has a parent party, assign-members *)
(* is accepted only when every user it names has an active row in that     *)
(* party; a request that names anyone else is rejected (400; 403 when the  *)
(* requester may not assign) and assigned_member_ids keeps its value.      *)
(* Creating a PARTY_INTERNAL quest from a party follows the same rule: a   *)
(* request naming a user without an active row is rejected and adds no     *)
(* quest.                                                                  *)
(***************************************************************************)
AllActiveIn(ids, p) ==
    \A i \in DOMAIN ids : \E m \in ActiveRows(p) : members[m].user_id = ids[i]

CloseStep(s) ==
    \/ close_quest_stage(s)
    \/ close_quest_commit(s)
    \/ \E u \in Users, q \in QuestIds : close_quest_begin(s, u, q)

C26_CloseIsAllOrNothing ==
    [][\A s \in Slots :
          CloseStep(s)
          => \/ UNCHANGED tables
             \/ LET q == inflight[s].quest
                     rows == inflight[s].rows
                     individual == quests[q].quest_type = "INDIVIDUAL"
                 IN  /\ last' = [op |-> "close_quest", code |-> 200]
                     /\ quests'[q].status = "IN_PROGRESS"
                     /\ Len(parties') = Len(parties) + (IF individual THEN 1 ELSE 0)
                     /\ individual => parties'[Len(parties')].quest_id = q
                     /\ Len(members') = Len(members) + Len(rows)
                     /\ \A i \in DOMAIN members : members'[i] = members[i]
                     /\ \A i \in DOMAIN rows :
                           LET row == members'[Len(members) + i]
                           IN  /\ row.user_id = rows[i].user_id
                               /\ row.role = rows[i].role
                               /\ row.status = "active"
                               /\ row.party_id = IF individual THEN Len(parties')
                                                 ELSE quests[q].parent_party_id
                     /\ individual
                        => /\ Len(rows) >= 1
                           /\ rows[1].user_id = quests[q].creator_id
                           /\ rows[1].role = "OWNER"]_vars

\* A close has just failed at its flush, on the party another close of the
\* same quest committed: the quest has the one party with all its rows.
C26_Witness ==
    /\ last = [op |-> "close_quest", code |-> 500]
    /\ \E q \in QuestIds :
          /\ quests[q].status = "IN_PROGRESS"
          /\ \E p \in party_by_quest(q) :
                {members[m].user_id : m \in {k \in MemberIds : members[k].party_id = p}}
                   = {1, 2}

(***************************************************************************)
(* C27.  Two close requests of one RECRUITING quest that both read the     *)
(* status before either commits leave what a single close leaves: at most  *)
(* one Party for an INDIVIDUAL quest and, for a PARTY_EXPANSION quest, at  *)
(* most one membership row per approved applicant in the parent party.     *)
(* Refuted: both closes of an expansion quest insert the applicant's row.  *)
(***************************************************************************)
C27_RacingClosesAsOne ==
    /\ \A q \in QuestIds : Cardinality(party_by_quest(q)) <= 1
    /\ \A p \in PartyIds, u \in Users :
          Cardinality({m \in MemberIds :
                          members[m].party_id = p /\ members[m].user_id = u}) <= 1

(***************************************************************************)
(* C28. When apply requests of one user for one quest are served at the    *)
(* same time, at most one application of that user for that quest is       *)
(* PENDING or APPROVED afterwards.  Refuted: both requests read before     *)
(* either inserts, and both insert.                                        *)
(***************************************************************************)
live_applications(u, q) ==
    {a \in ApplicationIds : /\ applications[a].applicant_id = u
                            /\ applications[a].quest_id = q
                            /\ applications[a].status \in {"PENDING", "APPROVED"}}

C28_OneLiveApplicationPerPair ==
    \A u \in Users, q \in QuestIds : Cardinality(live_applications(u, q)) <= 1

(***************************************************************************)
(* C29. When rating writes on one user are served at the same time, then   *)
(* once all of them have finished the user's reputation_score is the mean  *)
(* of the ratings then stored for that user.  Refuted: a request writes    *)
(* the average it read before another request's rating was committed.      *)
(***************************************************************************)
AllFinished == \A s \in Slots : inflight[s] = Idle

C29_NoStaleReputation ==
    AllFinished => \A u \in Users : reputation[u] = average_overall(ratings, u)

(***************************************************************************)
(* C30. An update of an application sent by a user who is neither its      *)
(* applicant, nor the creator of its quest, nor a superuser is answered    *)
(* 403 whatever fields it carries, and changes no field of the             *)
(* application.  Refuted: an update carrying only relevant_skills or       *)
(* reviewer_feedback passes both permission tests.                         *)
(***************************************************************************)
Outsider(u, a) ==
    /\ applications[a].applicant_id # u
    /\ quests[applications[a].quest_id].creator_id # u
    /\ ~is_superuser(u)

C30_OutsidersUpdateNothing ==
    [][last'.op = "update_application"
       => \A u \in Users, a \in ApplicationIds, req \in NoteUpdates :
             Outsider(u, a) /\ update_application(u, a, req)
             => last'.code = 403 /\ applications' = applications]_vars

(***************************************************************************)
(* C31. After a successful close of a PARTY_EXPANSION quest with a parent  *)
(* party, every applicant whose application is APPROVED is an active       *)
(* member of the parent party, whatever the applicant's earlier history    *)
(* with the party.  Refuted: an applicant who was removed from the party   *)
(* keeps the inactive row and gets no new one.                             *)
(***************************************************************************)
ActiveMemberAfter(u, p) ==
    \E m \in DOMAIN members' :
        /\ members'[m].party_id = p
        /\ members'[m].user_id = u
        /\ members'[m].status = "active"

C31_ApprovedJoinParentParty ==
    [][last'.op = "close_quest" /\ last'.code = 200
       => \A q \in QuestIds :
             /\ quests[q].status = "RECRUITING"
             /\ quests'[q].status = "IN_PROGRESS"
             /\ quests[q].quest_type = "PARTY_EXPANSION"
             /\ quests[q].parent_party_id # NoParty
             => \A a \in ApplicationIds :
                   /\ applications[a].quest_id = q
                   /\ applications[a].status = "APPROVED"
                   => ActiveMemberAfter(applications[a].applicant_id,
                                        quests[q].parent_party_id)]_vars

(***************************************************************************)
(* C32. In every reachable state the party formed for a quest has at most  *)
(* party_size_max active members.  Refuted: approvals are not counted      *)
(* against party_size_max and close tests party_size_min alone.            *)
(***************************************************************************)
C32_PartyWithinCapacity ==
    \A p \in PartyIds :
        parties[p].quest_id \in QuestIds
        => Cardinality(active_members(p)) <= quests[parties[p].quest_id].party_size_max

(***************************************************************************)
(* C33. Whenever no request is in progress, each user's reputation_score   *)
(* is the mean of overall_rating over the ratings the user has received at *)
(* that moment, 0.0 for none, also after a quest was deleted and took its  *)
(* party's ratings with it.  Refuted: the cascade removes the ratings and  *)
(* nothing recomputes the score.                                           *)
(***************************************************************************)
C33_ReputationFollowsRatings ==
    AllFinished => \A u \in Users : IsMeanOf(reputation[u], received(ratings, u))

(***************************************************************************)
(* C34. An application becomes APPROVED only while its quest is            *)
(* RECRUITING, so that in an INDIVIDUAL quest that a close has moved to    *)
(* IN_PROGRESS the applicant of every APPROVED application has a           *)
(* membership row in the quest's party.  Refuted: update of an application *)
(* never reads the quest's status and approves after the close.            *)
(***************************************************************************)
HasRowIn(u, q) ==
    \E p \in party_by_quest(q), m \in MemberIds :
        members[m].party_id = p /\ members[m].user_id = u

C34_ApprovedAreInParty ==
    \A q \in QuestIds :
        /\ quests[q].quest_type = "INDIVIDUAL"
        /\ quests[q].status = "IN_PROGRESS"
        /\ quests[q].updated_at = "close_quest"
        => \A a \in ApplicationIds :
              /\ applications[a].quest_id = q
              /\ applications[a].status = "APPROVED"
              => HasRowIn(applications[a].applicant_id, q)

(***************************************************************************)
(* C35. A close sent by the creator of a RECRUITING INDIVIDUAL quest whose *)
(* approved applicants plus the creator reach party_size_min is answered   *)
(* 200 and moves the quest to IN_PROGRESS, whatever came before.           *)
(* Refuted: once create-party has formed the quest's party, the close      *)
(* inserts a second Party for the quest and ends in a storage conflict.    *)
(***************************************************************************)
C35_CreatorCanAlwaysClose ==
    [][last'.op = "close_quest"
       => \A q \in QuestIds :
             /\ quests[q].status = "RECRUITING"
             /\ quests[q].quest_type = "INDIVIDUAL"
             /\ ~party_size_unmet(q)
             /\ close_quest(quests[q].creator_id, q)
             => last'.code = 200 /\ quests'[q].status = "IN_PROGRESS"]_vars

====
